---- MODULE Spec2Model ----
(***************************************************************************)
(* A model of the planning / context-packing / step-execution core of the  *)
(* VS-AGENT extension.                                                     *)
(*                                                                         *)
(*   TaskPlanner      src/unnamed/part_006                                 *)
(*   AgentCore        src/unnamed/part_003, lines 1-450                    *)
(*   SessionState     src/unnamed/part_003, lines 451-952                  *)
(*   ContextManager   src/unnamed/part_003, lines 953-1480                 *)
(*                                                                         *)
(* Strings that the code compares, sorts or joins are sequences of         *)
(* one-character strings, so that join(',') and the default sort() are     *)
(* computed as the code computes them.  Texts whose only use is their      *)
(* length (file contents, chunk contents) are represented by their length. *)
(***************************************************************************)
EXTENDS Integers, Sequences, FiniteSets, TLC

VARIABLES
    \* ---- TaskPlanner -------------------------------------------------
    steps,        \* the PlannedStep[] handed to the planner operation
    plan,         \* the TaskPlan handed to validatePlan / built by createPlan
    constraints,  \* the constraints argument of validatePlan
    description,  \* the task description, as the set of keywords it contains
    analysis,     \* what analyzeTask obtains from the preprocessor
    planOp,       \* the planner operation that has run ("none" before)
    planOut       \* what that operation returned or threw

planVars == <<steps, plan, constraints, description, analysis, planOp, planOut>>

VARIABLES
    \* ---- AgentCore and the SessionState ledger -------------------------
    anthropic,    \* TRUE once the API client has been constructed
    calls,        \* per executeTask invocation: where it is suspended and its locals
    tasks,        \* per invocation: the AgentTask object it created
    currentTask,  \* AgentCore.currentTask (0 is null)
    taskQueue,    \* AgentCore.taskQueue
    usage,        \* currentSession.usage
    sessionTasks, \* currentSession.tasks
    reports,      \* currentSession.reports
    applied,      \* the changes FileEditor.applyChange has written
    now           \* the time new Date() reads

execVars == <<anthropic, calls, tasks, currentTask, taskQueue, usage,
              sessionTasks, reports, applied, now>>

VARIABLES
    \* ---- ContextManager and the index it reads ------------------------
    workspace,    \* per path: the file's text and its FileIndex
    ctxArgs,      \* the arguments and collaborator answers of the call
    ctxOp,        \* the ContextManager operation that has run ("none" before)
    window,       \* the ContextWindow prepareContext returned
    returned      \* the ContextWindow the operation after it returned

ctxVars == <<workspace, ctxArgs, ctxOp, window, returned>>

VARIABLES
    \* ---- SessionState's session file ----------------------------------
    folder,       \* TRUE if the window has a workspace folder
    sessionPath,  \* SessionState.sessionPath ("" until getSessionPath answered)
    sessionEnd,   \* currentSession.endTime (<<>>: not set)
    saves,        \* the save() calls in flight: at mkdir or at writeFile
    disk,         \* the document at the session path (<<>>: no file)
    rejected,     \* the operations whose promise was rejected
    logged,       \* the operations whose failure console.error reported
    loaded        \* what loadSession returned (<<>>: null, or not called)

storeVars == <<folder, sessionPath, sessionEnd, saves, disk, rejected, logged,
               loaded>>

vars == <<planVars, execVars, ctxVars, storeVars>>

\* The sum of a sequence of numbers (by halves, to keep the evaluation shallow).
RECURSIVE SeqSum(_)
SeqSum(s) ==
    IF s = <<>> THEN 0
    ELSE IF Len(s) = 1 THEN s[1]
    ELSE LET h == Len(s) \div 2
         IN  SeqSum(SubSeq(s, 1, h)) + SeqSum(SubSeq(s, h + 1, Len(s)))

Range(s) == {s[i] : i \in 1..Len(s)}

Min(a, b) == IF a <= b THEN a ELSE b

(***************************************************************************)
(* Strings as sequences of characters.                                     *)
(***************************************************************************)

\* The characters that occur in step ids, in ascending UTF-16 code order.
Alphabet ==
    <<",", "-", "0", "1", "2", "3", "4", "5", "6", "7", "8", "9",
      "a", "b", "c", "d", "e", "f", "g", "h", "i", "j", "k", "l", "m",
      "n", "o", "p", "q", "r", "s", "t", "u", "v", "w", "x", "y", "z">>

CharCode(c) == CHOOSE i \in 1..Len(Alphabet) : Alphabet[i] = c

\* s < t in the order of Array.prototype.sort() without a comparator:
\* code unit by code unit, a proper prefix first.
RECURSIVE StrLess(_, _)
StrLess(s, t) ==
    IF t = <<>> THEN FALSE
    ELSE IF s = <<>> THEN TRUE
    ELSE IF Head(s) = Head(t) THEN StrLess(Tail(s), Tail(t))
    ELSE CharCode(Head(s)) < CharCode(Head(t))

\* Array.prototype.sort() on strings (stable insertion; equal strings are
\* indistinguishable, so stability is not observable).
RECURSIVE InsertSorted(_, _)
InsertSorted(x, sorted) ==
    IF sorted = <<>> THEN <<x>>
    ELSE IF StrLess(x, Head(sorted)) THEN <<x>> \o sorted
    ELSE <<Head(sorted)>> \o InsertSorted(x, Tail(sorted))

RECURSIVE SortStrings(_)
SortStrings(ss) ==
    IF ss = <<>> THEN <<>>
    ELSE InsertSorted(ss[Len(ss)], SortStrings(SubSeq(ss, 1, Len(ss) - 1)))

\* Array.prototype.join(sep)
RECURSIVE Join(_, _)
Join(ss, sep) ==
    IF ss = <<>> THEN <<>>
    ELSE IF Len(ss) = 1 THEN ss[1]
    ELSE ss[1] \o sep \o Join(Tail(ss), sep)

\* Decimal digits of a number below 100, as template literals print it.
Digit(d) == Alphabet[d + 3]
NumStr(n) == IF n < 10 THEN <<Digit(n)>> ELSE <<Digit(n \div 10), Digit(n % 10)>>

(***************************************************************************)
(* TaskPlanner: steps, parallel groups, reordering, cycle detection.       *)
(* A PlannedStep is [id, type, dependencies, canParallelize,               *)
(* estimatedTokens]; dependencies is the array of step ids in its order.   *)
(***************************************************************************)

Step(id, type, deps, par, tokens) ==
    [id |-> id, type |-> type, dependencies |-> deps,
     canParallelize |-> par, estimatedTokens |-> tokens]

StepIds(ss) == {ss[i].id : i \in 1..Len(ss)}

\* steps.find(s => s.id === id) finds a step (its result is not undefined).
HasStep(ss, id) == id \in StepIds(ss)

\* steps.find(s => s.id === id) when it finds one: the first step with that id.
FindStep(ss, id) ==
    ss[CHOOSE i \in 1..Len(ss) :
            /\ ss[i].id = id
            /\ \A j \in 1..(i - 1) : ss[j].id # id]

\* step.dependencies.sort().join(','): the key of a parallel group.
GroupKey(deps) == Join(SortStrings(deps), <<",">>)

\* findParallelGroups sorts the dependencies of every parallel-eligible step
\* with dependencies in place; this is the step list it leaves behind.
SortedInPlace(ss) ==
    [i \in 1..Len(ss) |->
        IF ss[i].canParallelize /\ Len(ss[i].dependencies) > 0
        THEN [ss[i] EXCEPT !.dependencies = SortStrings(@)]
        ELSE ss[i]]

\* findParallelGroups: the Map from key to member ids, as the sequence of
\* its entries in insertion order.
RECURSIVE GroupsFrom(_, _, _)
GroupsFrom(ss, i, groups) ==
    IF i > Len(ss) THEN groups
    ELSE IF ss[i].canParallelize /\ Len(ss[i].dependencies) > 0
    THEN LET key == GroupKey(ss[i].dependencies)
             at == {g \in 1..Len(groups) : groups[g].key = key}
         IN IF at = {}
            THEN GroupsFrom(ss, i + 1,
                     Append(groups, [key |-> key, members |-> <<ss[i].id>>]))
            ELSE GroupsFrom(ss, i + 1,
                     [groups EXCEPT ![CHOOSE g \in at : TRUE].members =
                                         Append(@, ss[i].id)])
    ELSE GroupsFrom(ss, i + 1, groups)

findParallelGroups(ss) == GroupsFrom(ss, 1, <<>>)

(***************************************************************************)
(* reorderSteps.  The state of the traversal is [reordered, processed,     *)
(* overflow].  visit is recursive in the code; its control flow depends    *)
(* only on (step, processed), and processed only grows, so a call of visit *)
(* for a step nested in a call for the same step with the same processed   *)
(* set repeats forever: the recursion is unbounded and Node ends it with   *)
(* RangeError (maximum call stack size exceeded).  `active` holds the      *)
(* <<id, processed>> pairs of the calls in progress; overflow records that *)
(* outcome.                                                                *)
(***************************************************************************)

\* A variant that puts the step at the front: reordered.unshift(step).
PlaceFront(st, step) ==
    [st EXCEPT !.reordered = <<step>> \o @, !.processed = @ \cup {step.id}]

\* reordered.push(step); processed.add(step.id)
Place(st, step) ==
    [st EXCEPT !.reordered = Append(@, step), !.processed = @ \cup {step.id}]

\* The inner loop of "Add parallel siblings": the members of one group.
RECURSIVE PullMembers(_, _, _, _)
PullMembers(ss, st, members, k) ==
    IF k > Len(members) THEN st
    ELSE IF members[k] \notin st.processed
    THEN PullMembers(ss, Place(st, FindStep(ss, members[k])), members, k + 1)
    ELSE PullMembers(ss, st, members, k + 1)

\* "Add parallel siblings": every group that includes the step just placed.
RECURSIVE PullSiblings(_, _, _, _, _)
PullSiblings(ss, groups, st, id, g) ==
    IF g > Len(groups) THEN st
    ELSE IF id \in Range(groups[g].members)
    THEN PullSiblings(ss, groups,
                      PullMembers(ss, st, groups[g].members, 1), id, g + 1)
    ELSE PullSiblings(ss, groups, st, id, g + 1)

RECURSIVE visit(_, _, _, _, _)
RECURSIVE VisitDeps(_, _, _, _, _, _)

\* "Process dependencies first": the loop over step.dependencies from k on.
VisitDeps(ss, groups, st, step, k, active) ==
    IF st.overflow \/ k > Len(step.dependencies) THEN st
    ELSE LET depId == step.dependencies[k]
         IN IF HasStep(ss, depId) /\ depId \notin st.processed
            THEN VisitDeps(ss, groups,
                           visit(ss, groups, st, FindStep(ss, depId), active),
                           step, k + 1, active)
            ELSE VisitDeps(ss, groups, st, step, k + 1, active)

visit(ss, groups, st, step, active) ==
    IF st.overflow \/ step.id \in st.processed THEN st
    ELSE IF <<step.id, st.processed>> \in active
    THEN [st EXCEPT !.overflow = TRUE]
    ELSE LET afterDeps == VisitDeps(ss, groups, st, step, 1,
                                    active \cup {<<step.id, st.processed>>})
         IN IF afterDeps.overflow THEN afterDeps
            ELSE PullSiblings(ss, groups, Place(afterDeps, step), step.id, 1)

\* "Start with steps that have no dependencies"
RECURSIVE VisitRoots(_, _, _, _)
VisitRoots(ss, groups, st, i) ==
    IF i > Len(ss) THEN st
    ELSE IF Len(ss[i].dependencies) = 0
    THEN VisitRoots(ss, groups, visit(ss, groups, st, ss[i], {}), i + 1)
    ELSE VisitRoots(ss, groups, st, i + 1)

\* "Add any remaining steps"
RECURSIVE VisitAll(_, _, _, _)
VisitAll(ss, groups, st, i) ==
    IF i > Len(ss) THEN st
    ELSE VisitAll(ss, groups, visit(ss, groups, st, ss[i], {}), i + 1)

\* reorderSteps(steps, parallelGroups): [reordered, overflow].
reorderSteps(ss, groups) ==
    LET start == [reordered |-> <<>>, processed |-> {}, overflow |-> FALSE]
        done == VisitAll(ss, groups, VisitRoots(ss, groups, start, 1), 1)
    IN [reordered |-> done.reordered, overflow |-> done.overflow]

\* updateDependencies: drop the dependency ids that name no step.
updateDependencies(ss) ==
    [i \in 1..Len(ss) |->
        [ss[i] EXCEPT !.dependencies =
            SelectSeq(@, LAMBDA d : d \in StepIds(ss))]]

\* optimizePlan on the steps of a plan: what it returns (kind "ok" with the
\* steps of the returned plan) or how it ends (kind "throw").
optimizePlan(ss) ==
    LET groups == findParallelGroups(ss)
        r == reorderSteps(SortedInPlace(ss), groups)
    IN IF r.overflow
       THEN [kind |-> "throw", error |-> "RangeError", reordered |-> <<>>,
             steps |-> <<>>]
       ELSE [kind |-> "ok", error |-> "", reordered |-> r.reordered,
             steps |-> updateDependencies(r.reordered)]

(***************************************************************************)
(* hasCircularDependencies: DFS with visited and recursionStack.           *)
(***************************************************************************)

RECURSIVE hasCycle(_, _, _)
RECURSIVE CycleDeps(_, _, _, _)

\* The loop over step.dependencies inside hasCycle, from index k on.
CycleDeps(ss, st, step, k) ==
    IF st.found \/ k > Len(step.dependencies) THEN st
    ELSE LET depId == step.dependencies[k]
         IN IF depId \notin st.visited
            THEN CycleDeps(ss, hasCycle(ss, st, depId), step, k + 1)
            ELSE IF depId \in st.recursionStack
            THEN [st EXCEPT !.found = TRUE]
            ELSE CycleDeps(ss, st, step, k + 1)

\* A variant that leaves the step on the recursion stack when it returns.
hasCycleKeepStack(ss, st, stepId) ==
    LET entered == [st EXCEPT !.visited = @ \cup {stepId},
                              !.recursionStack = @ \cup {stepId}]
    IN  IF HasStep(ss, stepId)
        THEN CycleDeps(ss, entered, FindStep(ss, stepId), 1)
        ELSE entered

\* const hasCycle = (stepId) => ...
hasCycle(ss, st, stepId) ==
    LET entered == [st EXCEPT !.visited = @ \cup {stepId},
                              !.recursionStack = @ \cup {stepId}]
        after == IF HasStep(ss, stepId)
                 THEN CycleDeps(ss, entered, FindStep(ss, stepId), 1)
                 ELSE entered
    IN IF after.found THEN after
       ELSE [after EXCEPT !.recursionStack = @ \ {stepId}]

RECURSIVE CycleScan(_, _, _)
CycleScan(ss, st, i) ==
    IF st.found \/ i > Len(ss) THEN st
    ELSE IF ss[i].id \notin st.visited
    THEN CycleScan(ss, hasCycle(ss, st, ss[i].id), i + 1)
    ELSE CycleScan(ss, st, i + 1)

hasCircularDependencies(ss) ==
    CycleScan(ss, [visited |-> {}, recursionStack |-> {}, found |-> FALSE], 1).found

(***************************************************************************)
(* validatePlan.  Objects are records; a field an object does not carry is *)
(* absent from the record's DOMAIN.  The result is [kind |-> "ok", valid,  *)
(* issues] or [kind |-> "throw", error] when the call rejects.             *)
(***************************************************************************)

Has(obj, f) == f \in DOMAIN obj

\* The limit validatePlan falls back to.
DefaultMaxTokens == 200000

\* plan.steps.reduce((sum, step) => sum + step.estimatedTokens, 0):
\* a step without estimatedTokens turns the sum into NaN.
TotalTokens(ss) ==
    IF \E i \in 1..Len(ss) : ~Has(ss[i], "estimatedTokens")
    THEN [nan |-> TRUE, n |-> 0]
    ELSE [nan |-> FALSE, n |-> SeqSum([i \in 1..Len(ss) |-> ss[i].estimatedTokens])]

\* constraints.maxTokens || 200000
TokenLimit(c) ==
    IF Has(c, "maxTokens") /\ c.maxTokens # 0 THEN c.maxTokens ELSE DefaultMaxTokens

\* plan.requiredCapabilities.filter(cap => !constraints.availableCapabilities?.includes(cap))
MissingCapabilities(p, c) ==
    SelectSeq(p.requiredCapabilities,
              LAMBDA cap : ~(/\ Has(c, "availableCapabilities")
                             /\ cap \in Range(c.availableCapabilities)))

\* plan.dependencies.filter(d => d.required && !d.available)
UnavailableDeps(p) ==
    SelectSeq(p.dependencies,
              LAMBDA d : d.required /\ ~(Has(d, "available") /\ d.available))

\* The issues in the order validatePlan pushes them.
PlanIssues(p, c) ==
    LET total == TotalTokens(p.steps)
        missing == MissingCapabilities(p, c)
        unavailable == UnavailableDeps(p)
    IN (IF ~total.nan /\ total.n > TokenLimit(c)
        THEN <<[check |-> "tokens", tokens |-> total.n]>> ELSE <<>>)
       \o (IF Len(missing) > 0
           THEN <<[check |-> "capabilities", missing |-> missing]>> ELSE <<>>)
       \o (IF Len(unavailable) > 0
           THEN <<[check |-> "dependencies",
                   names |-> [i \in 1..Len(unavailable) |-> unavailable[i].name]]>>
           ELSE <<>>)
       \o (IF hasCircularDependencies(p.steps)
           THEN <<[check |-> "circular"]>> ELSE <<>>)

validatePlan(p, c) ==
    IF ~Has(p, "requiredCapabilities") \/ ~Has(p, "dependencies")
    THEN [kind |-> "throw", error |-> "TypeError"]
    ELSE LET issues == PlanIssues(p, c)
         IN [kind |-> "ok", valid |-> (Len(issues) = 0), issues |-> issues]

(***************************************************************************)
(* createPlan.  A description is the set of the phrases it contains: the   *)
(* code reads it only through descLower.includes(phrase).                  *)
(***************************************************************************)

SimpleKeywords == <<"fix", "update", "rename", "move", "add comment">>
ModerateKeywords == <<"refactor", "implement", "integrate", "optimize">>
ComplexKeywords == <<"redesign", "migrate", "rewrite", "architect", "all", "entire">>

\* The keys of planTemplates with their first '-' replaced by a space.
TemplateKeys == <<"refactor async", "add tests", "optimize performance">>

Phrases ==
    Range(SimpleKeywords) \cup Range(ModerateKeywords) \cup Range(ComplexKeywords)
        \cup Range(TemplateKeys) \cup {"add", "test"}

\* The phrases that are substrings of a phrase.
SubPhrases(ph) ==
    CASE ph = "add comment" -> {"add comment", "add"}
      [] ph = "add tests" -> {"add tests", "add", "test"}
      [] ph = "refactor async" -> {"refactor async", "refactor"}
      [] ph = "optimize performance" -> {"optimize performance", "optimize"}
      [] OTHER -> {ph}

Includes(desc, ph) == ph \in desc

IdAnalyze == <<"a", "n", "a", "l", "y", "z", "e", "-", "1">>
IdEditRefactor == <<"e", "d", "i", "t", "-", "r", "e", "f", "a", "c", "t", "o", "r", "-", "1">>
IdReviewRefactor == <<"r", "e", "v", "i", "e", "w", "-", "r", "e", "f", "a", "c", "t", "o", "r", "-", "1">>
IdEditImplement == <<"e", "d", "i", "t", "-", "i", "m", "p", "l", "e", "m", "e", "n", "t", "-", "1">>
IdAnalyzePerformance == <<"a", "n", "a", "l", "y", "z", "e", "-", "p", "e", "r", "f", "o", "r", "m", "a", "n", "c", "e", "-", "1">>
IdEditOptimize == <<"e", "d", "i", "t", "-", "o", "p", "t", "i", "m", "i", "z", "e", "-", "1">>
ValidatePrefix == <<"v", "a", "l", "i", "d", "a", "t", "e", "-">>
TestPrefix == <<"t", "e", "s", "t", "-">>

\* basicTaskAnalysis: the first level, in the order simple, moderate,
\* complex, one of whose keywords the description contains.
basicComplexity(desc) ==
    IF \E k \in Range(SimpleKeywords) : Includes(desc, k) THEN "simple"
    ELSE IF \E k \in Range(ModerateKeywords) : Includes(desc, k) THEN "moderate"
    ELSE IF \E k \in Range(ComplexKeywords) : Includes(desc, k) THEN "complex"
    ELSE "moderate"

\* analyzeTask: the classifier's parsed answer when the preprocessor is
\* available and answers with JSON, else basicTaskAnalysis.  The answer is
\* [kind |-> "object"] with or without a complexity field, or
\* [kind |-> "null"] (the JSON text null).
analyzeTask(desc, an) ==
    IF an.kind \in {"unavailable", "failed"}
    THEN [kind |-> "object", complexity |-> basicComplexity(desc)]
    ELSE an

generateTaskSpecificSteps(desc) ==
    (IF Includes(desc, "refactor")
     THEN <<Step(IdEditRefactor, "edit", <<IdAnalyze>>, TRUE, 10000),
            Step(IdReviewRefactor, "review", <<IdEditRefactor>>, FALSE, 5000)>>
     ELSE <<>>)
    \o (IF Includes(desc, "implement") \/ Includes(desc, "add")
        THEN <<Step(IdEditImplement, "edit", <<IdAnalyze>>, FALSE, 15000)>>
        ELSE <<>>)
    \o (IF Includes(desc, "optimize")
        THEN <<Step(IdAnalyzePerformance, "analyze", <<IdAnalyze>>, FALSE, 8000),
               Step(IdEditOptimize, "edit", <<IdAnalyzePerformance>>, TRUE, 12000)>>
        ELSE <<>>)

generateSteps(desc, an) ==
    LET first == <<Step(IdAnalyze, "analyze", <<>>, FALSE, 5000)>>
                     \o generateTaskSpecificSteps(desc)
        withValidate ==
            Append(first,
                   Step(ValidatePrefix \o NumStr(Len(first) + 1), "validate",
                        [i \in 1..Len(first) |-> first[i].id], FALSE, 3000))
    IN IF Includes(desc, "test")
          \/ ~(Has(an, "complexity") /\ an.complexity = "simple")
       THEN Append(withValidate,
                   Step(TestPrefix \o NumStr(Len(withValidate) + 1), "test",
                        <<withValidate[Len(withValidate)].id>>, FALSE, 1000))
       ELSE withValidate

\* findTemplate(...)?.requiredCapabilities || []
templateCapabilities(desc) ==
    IF Includes(desc, "refactor async")
    THEN <<"ast-manipulation", "promise-detection", "error-handling">>
    ELSE IF Includes(desc, "add tests")
    THEN <<"test-framework-knowledge", "mocking", "assertion-generation">>
    ELSE IF Includes(desc, "optimize performance")
    THEN <<"profiling", "complexity-analysis", "algorithm-knowledge">>
    ELSE <<>>

\* identifyDependencies: the generated steps carry validation types syntax
\* and tests only, so jest is the one dependency it can report.
identifyDependencies(ss) ==
    IF \E i \in 1..Len(ss) : ss[i].type = "test"
    THEN <<[type |-> "package", name |-> "jest", required |-> TRUE, available |-> TRUE]>>
    ELSE <<>>

createPlan(desc, an) ==
    LET taskAnalysis == analyzeTask(desc, an)
    IN IF taskAnalysis.kind = "null"
       THEN [kind |-> "throw", error |-> "TypeError"]
       ELSE LET ss == generateSteps(desc, taskAnalysis)
                opt == optimizePlan(ss)
            IN IF opt.kind = "throw"
               THEN [kind |-> "throw", error |-> opt.error]
               ELSE [kind |-> "ok",
                     plan |-> [estimatedComplexity |->
                                   IF Has(taskAnalysis, "complexity")
                                   THEN taskAnalysis.complexity ELSE "moderate",
                               requiredCapabilities |-> templateCapabilities(desc),
                               dependencies |-> identifyDependencies(ss),
                               steps |-> opt.steps]]

(***************************************************************************)
(* Inputs of the planner operations.                                       *)
(***************************************************************************)

\* The longest dependency list of an enumerated step.
MaxDeps == 2

\* The most phrases an enumerated description is built from.
MaxPhrases == 3

\* Sequences of distinct elements of S of length at most n.
RECURSIVE DistinctSeqs(_, _)
DistinctSeqs(S, n) ==
    IF n = 0 THEN {<<>>}
    ELSE LET shorter == DistinctSeqs(S, n - 1)
         IN shorter \cup UNION {{Append(q, x) : x \in S \ Range(q)} : q \in shorter}

\* Plain step ids, and an id that names no step.
PlainIds == << <<"a">>, <<"b">>, <<"c">> >>
MissingId == <<"m">>

\* Step lists over the plain ids: step k carries the k-th id; every
\* dependency list over those ids and the missing id (cycles and
\* self-dependencies included), every canParallelize flag.
PlainShapes ==
    [dependencies : DistinctSeqs(Range(PlainIds) \cup {MissingId}, MaxDeps),
     canParallelize : BOOLEAN]

PlainStepList(n, f) ==
    [i \in 1..n |-> Step(PlainIds[i], "edit", f[i].dependencies,
                         f[i].canParallelize, 1000)]

\* Step lists in which one id contains the separator of the group key:
\* two leaves "a" and "b", the step "a,b", and two steps "x" and "y" that
\* depend on them, the last three in every order; all are acyclic and name
\* only steps of the list.
IdA == <<"a">>
IdB == <<"b">>
IdAB == <<"a", ",", "b">>
IdX == <<"x">>
IdY == <<"y">>

Permutations3 ==
    {<<1, 2, 3>>, <<1, 3, 2>>, <<2, 1, 3>>, <<2, 3, 1>>, <<3, 1, 2>>, <<3, 2, 1>>}

UpperDeps == DistinctSeqs({IdA, IdB, IdAB}, MaxDeps) \ {<<>>}

SeparatorStepList(dq, dx, px, dy, py, perm) ==
    <<Step(IdA, "analyze", <<>>, FALSE, 1000),
      Step(IdB, "analyze", <<>>, FALSE, 1000)>>
    \o [k \in 1..3 |->
          << Step(IdAB, "edit", dq, FALSE, 1000),
             Step(IdX, "edit", dx, px, 1000),
             Step(IdY, "edit", dy, py, 1000) >>[perm[k]]]

\* Step lists with three parallel-eligible steps "x", "y" and "z" above the
\* leaves "a" and "b" and the parallel-eligible step "a,b", which is a leaf
\* or depends on both leaves: all are acyclic and name only steps of the
\* list.
IdZ == <<"z">>

ParallelStepList(dq, dx, dy, dz) ==
    <<Step(IdA, "analyze", <<>>, FALSE, 1000),
      Step(IdB, "analyze", <<>>, FALSE, 1000),
      Step(IdX, "edit", dx, TRUE, 1000),
      Step(IdY, "edit", dy, TRUE, 1000),
      Step(IdZ, "edit", dz, TRUE, 1000),
      Step(IdAB, "analyze", dq, TRUE, 1000)>>

NoSteps == <<>>
NoPlan == [steps |-> <<>>]
NoConstraints == [maxTokens |-> 0]
NoDescription == {}
NoAnalysis == [kind |-> "unavailable"]
NoOut == [kind |-> "none"]

(***************************************************************************)
(* The planner operations on a step list.                                  *)
(***************************************************************************)

\* ---- AgentCore: the state a freshly constructed agent is in ----------

\* The invocations of executeTask that are followed, numbered in the order
\* in which they are made.
Invocations == {1, 2}

\* The invocation that is followed when executeTask is called once.
Alone == {1}

\* Bound: the steps in the plan the planning call returns.
MaxExecSteps == 2

\* Bound: the changes in the answer to an editing call.
MaxChanges == 2

\* No AgentTask has been created by this invocation yet.
NoTask == [status |-> "none", error |-> "none", steps |-> <<>>]

\* An executeTask invocation that has not been made.
IdleCall ==
    [pc |-> "idle", purpose |-> "none", cancelled |-> FALSE, plan |-> <<>>,
     idx |-> 0, fileChanges |-> <<>>, j |-> 0, thrown |-> "none",
     attempts |-> 0, outcome |-> "none"]

\* AgentCore and SessionState right after construction: no task, an empty
\* queue, an empty ledger.
ExecutorAtRest ==
    /\ calls = [i \in Invocations |-> IdleCall]
    /\ tasks = [i \in Invocations |-> NoTask]
    /\ currentTask = 0
    /\ taskQueue = <<>>
    /\ usage = <<>>
    /\ sessionTasks = <<>>
    /\ reports = <<>>
    /\ applied = <<>>
    /\ now = 0

\* ---- ContextManager: nothing has been asked of it -------------------

NoWorkspace == <<>>
NoArgs == [budget |-> 0]
NoWindow == [files |-> <<>>, totalTokens |-> 0, summary |-> "", relevanceMap |-> {}]

\* SessionState right after construction: no path, nothing in flight,
\* nothing written.
StoreAtRest ==
    /\ sessionPath = ""
    /\ sessionEnd = <<>>
    /\ saves = <<>>
    /\ disk = <<>>
    /\ rejected = {}
    /\ logged = {}
    /\ loaded = <<>>

PackerAtRest ==
    /\ workspace = NoWorkspace
    /\ ctxArgs = NoArgs
    /\ ctxOp = "none"
    /\ window = NoWindow
    /\ returned = NoWindow

InitSteps ==
    /\ anthropic = FALSE
    /\ ExecutorAtRest
    /\ StoreAtRest
    /\ folder = FALSE
    /\ PackerAtRest
    /\ \/ \E n \in 0..Len(PlainIds) : \E f \in [1..n -> PlainShapes] :
              steps = PlainStepList(n, f)
       \/ \E dq \in {<<>>, <<IdA>>}, dx \in UpperDeps, dy \in UpperDeps,
             px \in BOOLEAN, py \in BOOLEAN, perm \in Permutations3 :
              steps = SeparatorStepList(dq, dx, px, dy, py, perm)
       \/ \E dq \in {<<>>, <<IdA, IdB>>},
             dx \in UpperDeps, dy \in UpperDeps, dz \in UpperDeps :
              steps = ParallelStepList(dq, dx, dy, dz)
    /\ plan = NoPlan
    /\ constraints = NoConstraints
    /\ description = NoDescription
    /\ analysis = NoAnalysis
    /\ planOp = "none"
    /\ planOut = NoOut

\* optimizePlan(plan) on a plan whose steps are `steps`.
OptimizePlan ==
    /\ planOp = "none"
    /\ planOp' = "optimizePlan"
    /\ planOut' = optimizePlan(steps)
    /\ UNCHANGED <<steps, plan, constraints, description, analysis>>
    /\ UNCHANGED <<execVars, ctxVars, storeVars>>

\* hasCircularDependencies(steps)
HasCircularDependencies ==
    /\ planOp = "none"
    /\ planOp' = "hasCircularDependencies"
    /\ planOut' = [kind |-> "ok", value |-> hasCircularDependencies(steps)]
    /\ UNCHANGED <<steps, plan, constraints, description, analysis>>
    /\ UNCHANGED <<execVars, ctxVars, storeVars>>

NextSteps == OptimizePlan \/ HasCircularDependencies

SpecSteps == InitSteps /\ [][NextSteps]_vars

(***************************************************************************)
(* The dependency relation of a step list, stated apart from the code.     *)
(***************************************************************************)

\* The ids a step id depends on directly: the dependencies of the steps
\* carrying that id (an id that names no step depends on nothing).
DirectDeps(ss, id) ==
    UNION {Range(ss[i].dependencies) : i \in {k \in 1..Len(ss) : ss[k].id = id}}

\* The ids reachable from the set `from` in one or more dependency edges
\* once `n` rounds have been added to `acc`.
RECURSIVE ReachFrom(_, _, _)
ReachFrom(ss, acc, n) ==
    IF n = 0 THEN acc
    ELSE ReachFrom(ss, acc \cup UNION {DirectDeps(ss, d) : d \in acc}, n - 1)

DependsOnTransitively(ss, id) == ReachFrom(ss, DirectDeps(ss, id), Len(ss))

\* The dependency relation contains a cycle.
Cyclic(ss) == \E id \in StepIds(ss) : id \in DependsOnTransitively(ss, id)

\* Every dependency names a step of the list.
Closed(ss) == \A i \in 1..Len(ss) : Range(ss[i].dependencies) \subseteq StepIds(ss)

\* In the list r every step stands strictly after each of its dependencies.
DependenciesFirst(r) ==
    \A i \in 1..Len(r) : \A d \in Range(r[i].dependencies) :
        /\ \E j \in 1..(i - 1) : r[j].id = d
        /\ \A j \in i..Len(r) : r[j].id # d

(***************************************************************************)
(* Claims about the planner operations on a step list.                     *)
(***************************************************************************)

\* C2: for every acyclic step list whose dependencies name only steps of
\* the list, reorderSteps returns a list in which every step stands at a
\* strictly later position than each of its dependencies.
C2_DependenciesBeforeDependents ==
    (planOp = "optimizePlan" /\ ~Cyclic(steps) /\ Closed(steps))
        => (planOut.kind = "ok" /\ DependenciesFirst(planOut.reordered))

\* The steps with ids x and y of the list ss belong to one parallel group:
\* both are marked canParallelize and they have the same non-empty set of
\* dependencies.
SameGroup(ss, x, y) ==
    LET sx == FindStep(ss, x)
        sy == FindStep(ss, y)
    IN  /\ sx.canParallelize
        /\ sy.canParallelize
        /\ Range(sx.dependencies) # {}
        /\ Range(sx.dependencies) = Range(sy.dependencies)

\* C27: after reorderSteps the members of each parallel group stand at
\* consecutive positions: no step from outside the group stands between two
\* members of the group.
C27_GroupMembersAdjacent ==
    (planOp = "optimizePlan" /\ ~Cyclic(steps) /\ planOut.kind = "ok") =>
        LET r == planOut.reordered
        IN  \A i \in 1..Len(r) : \A j \in (i + 1)..Len(r) :
                SameGroup(steps, r[i].id, r[j].id) =>
                    \A m \in (i + 1)..(j - 1) :
                        SameGroup(steps, r[i].id, r[m].id)

\* C28: for every acyclic step list reorderSteps returns a permutation of
\* its input: every step of the input stands at exactly one position of the
\* result and the result holds no other step.
C28_ReorderIsPermutation ==
    (planOp = "optimizePlan" /\ ~Cyclic(steps)) =>
        /\ planOut.kind = "ok"
        /\ LET r == planOut.reordered
           IN  /\ StepIds(r) = StepIds(steps)
               /\ \A k \in 1..Len(steps) :
                     Cardinality({i \in 1..Len(r) : r[i].id = steps[k].id}) = 1

\* C3: hasCircularDependencies returns true exactly for the step lists
\* whose dependency relation contains a cycle, also when a dependency names
\* an id that is no step of the list.
C3_CycleDetectionExact ==
    planOp = "hasCircularDependencies" => (planOut.value <=> Cyclic(steps))

\* A cycle among the later steps of a list whose first step, itself on no
\* cycle, depends on an id that is no step of the list: reported.
C3_CycleBesideMissingStep ==
    /\ planOp = "hasCircularDependencies"
    /\ planOut.value = TRUE
    /\ Len(steps) = 3
    /\ MissingId \in Range(steps[1].dependencies)
    /\ steps[1].id \notin DependsOnTransitively(steps, steps[1].id)

\* A diamond (one step reached along two dependency paths) without a cycle:
\* not reported.
C3_DiamondIsNoCycle ==
    /\ planOp = "hasCircularDependencies"
    /\ planOut.value = FALSE
    /\ \E a, b, c \in 1..Len(steps) :
          /\ steps[b].id \in Range(steps[a].dependencies)
          /\ steps[c].id \in Range(steps[a].dependencies)
          /\ steps[c].id \in Range(steps[b].dependencies)

\* C6: plan building on a step list that contains a dependency cycle ends
\* by rejecting the plan with a circular-dependency error.
C6_CyclicPlanRejected ==
    (planOp = "optimizePlan" /\ Cyclic(steps))
        => (planOut.kind = "throw" /\ planOut.error = "CircularDependencyError")

(***************************************************************************)
(* validatePlan on enumerated plans and constraints.                       *)
(***************************************************************************)

\* The most steps of an enumerated plan handed to validatePlan.
MaxPlanSteps == 2

\* The estimatedTokens values of enumerated steps.
TokenChoices == {1000, 120000}

\* A step that carries id and dependencies alone, as the plan of the
\* repository's validatePlan test does.
BareStep(id, deps) == [id |-> id, dependencies |-> deps]

PlanStepShapes ==
    [dependencies : DistinctSeqs({PlainIds[i] : i \in 1..MaxPlanSteps}, 1),
     tokens : TokenChoices \cup {0},
     hasTokens : BOOLEAN]

PlanStepList(n, f) ==
    [i \in 1..n |->
        IF f[i].hasTokens
        THEN Step(PlainIds[i], "edit", f[i].dependencies, FALSE, f[i].tokens)
        ELSE BareStep(PlainIds[i], f[i].dependencies)]

\* An optional field: the one-field record, or no field at all.
Field(name, present, value) == IF present THEN [x \in {name} |-> value] ELSE <<>>

ExternalDep(name, required, hasAvailable, available) ==
    [type |-> "package", name |-> name, required |-> required]
        @@ Field("available", hasAvailable, available)

CapabilityLists == {<<>>, <<"analyze">>, <<"analyze", "deploy">>}
AvailableLists == {<<>>, <<"analyze", "edit">>, <<"analyze", "edit", "deploy">>}

ExternalDepLists ==
    {<<>>,
     <<ExternalDep("jest", TRUE, TRUE, TRUE)>>,
     <<ExternalDep("jest", TRUE, TRUE, FALSE)>>,
     <<ExternalDep("eslint", FALSE, TRUE, FALSE)>>,
     <<ExternalDep("typescript", TRUE, FALSE, FALSE)>>,
     <<ExternalDep("jest", TRUE, TRUE, FALSE), ExternalDep("typescript", TRUE, TRUE, FALSE)>>}

MaxTokensChoices == {0, 1000, 250000}

InitValidate ==
    /\ anthropic = FALSE
    /\ ExecutorAtRest
    /\ StoreAtRest
    /\ folder = FALSE
    /\ PackerAtRest
    /\ steps = NoSteps
    /\ \E n \in 0..MaxPlanSteps : \E f \in [1..n -> PlanStepShapes] :
       \E hasCaps \in BOOLEAN, caps \in CapabilityLists,
          hasDeps \in BOOLEAN, deps \in ExternalDepLists :
           /\ \A i \in 1..n : ~f[i].hasTokens => f[i].tokens = 0
           /\ ~hasCaps => caps = <<>>
           /\ ~hasDeps => deps = <<>>
           /\ plan = [steps |-> PlanStepList(n, f)]
                        @@ Field("requiredCapabilities", hasCaps, caps)
                        @@ Field("dependencies", hasDeps, deps)
    /\ \E hasMax \in BOOLEAN, max \in MaxTokensChoices,
          hasAvail \in BOOLEAN, avail \in AvailableLists :
           /\ ~hasMax => max = 0
           /\ ~hasAvail => avail = <<>>
           /\ constraints = Field("maxTokens", hasMax, max)
                               @@ Field("availableCapabilities", hasAvail, avail)
    /\ description = NoDescription
    /\ analysis = NoAnalysis
    /\ planOp = "none"
    /\ planOut = NoOut

\* validatePlan(plan, constraints)
ValidatePlan ==
    /\ planOp = "none"
    /\ planOp' = "validatePlan"
    /\ planOut' = validatePlan(plan, constraints)
    /\ UNCHANGED <<steps, plan, constraints, description, analysis>>
    /\ UNCHANGED <<execVars, ctxVars, storeVars>>

NextValidate == ValidatePlan

SpecValidate == InitValidate /\ [][NextValidate]_vars

(***************************************************************************)
(* createPlan on enumerated descriptions and classifier answers.           *)
(***************************************************************************)

\* The subsets of S with at most n elements.
RECURSIVE SubsetsUpTo(_, _)
SubsetsUpTo(S, n) ==
    IF n = 0 THEN {{}}
    ELSE LET smaller == SubsetsUpTo(S, n - 1)
         IN smaller \cup UNION {{K \cup {x} : x \in S} : K \in smaller}

\* The description that consists of the phrases of K: it contains them and
\* the phrases that are substrings of them.
DescriptionOf(K) == UNION {SubPhrases(ph) : ph \in K}

\* What analyzeTask gets from the preprocessor: it is not available, its
\* call fails or answers no JSON, it answers the JSON text null, or it
\* answers a JSON object with or without a complexity field.
Analyses ==
    {[kind |-> "unavailable"], [kind |-> "failed"], [kind |-> "null"],
     [kind |-> "object"]}
    \cup {[kind |-> "object", complexity |-> c] : c \in {"simple", "moderate", "complex"}}

InitCreate ==
    /\ anthropic = FALSE
    /\ ExecutorAtRest
    /\ StoreAtRest
    /\ folder = FALSE
    /\ PackerAtRest
    /\ steps = NoSteps
    /\ plan = NoPlan
    /\ constraints = NoConstraints
    /\ \E K \in SubsetsUpTo(Phrases, MaxPhrases) : description = DescriptionOf(K)
    /\ analysis \in Analyses
    /\ planOp = "none"
    /\ planOut = NoOut

\* createPlan(taskDescription, codebaseInfo)
CreatePlan ==
    /\ planOp = "none"
    /\ planOp' = "createPlan"
    /\ planOut' = createPlan(description, analysis)
    /\ UNCHANGED <<steps, plan, constraints, description, analysis>>
    /\ UNCHANGED <<execVars, ctxVars, storeVars>>

NextCreate == CreatePlan

SpecCreate == InitCreate /\ [][NextCreate]_vars

(***************************************************************************)
(* Claims about validatePlan.                                              *)
(***************************************************************************)

\* The budget a plan is checked against: constraints.maxTokens, and the
\* default when the constraints carry none.
Budget(c) == IF Has(c, "maxTokens") THEN c.maxTokens ELSE DefaultMaxTokens

\* The checks of validatePlan that fail for a plan that carries all its
\* fields, stated apart from the code.
FailingChecks(p, c) ==
    (IF SeqSum([i \in 1..Len(p.steps) |-> p.steps[i].estimatedTokens]) > Budget(c)
     THEN {"tokens"} ELSE {})
    \cup (IF \E cap \in Range(p.requiredCapabilities) :
                ~Has(c, "availableCapabilities")
                \/ cap \notin Range(c.availableCapabilities)
          THEN {"capabilities"} ELSE {})
    \cup (IF \E d \in Range(p.dependencies) :
                d.required /\ (~Has(d, "available") \/ ~d.available)
          THEN {"dependencies"} ELSE {})
    \cup (IF Cyclic(p.steps) THEN {"circular"} ELSE {})

\* The plan carries every field validatePlan reads.
CompletePlan(p) ==
    /\ Has(p, "requiredCapabilities")
    /\ Has(p, "dependencies")
    /\ \A i \in 1..Len(p.steps) : Has(p.steps[i], "estimatedTokens")

\* C4: validatePlan returns valid=false exactly when one of the four checks
\* fails, and issues holds exactly one entry for each failing check.
C4_ValidIffNoCheckFails ==
    (planOp = "validatePlan" /\ CompletePlan(plan))
        => /\ planOut.kind = "ok"
           /\ planOut.valid <=> (FailingChecks(plan, constraints) = {})
           /\ {planOut.issues[i].check : i \in 1..Len(planOut.issues)}
                  = FailingChecks(plan, constraints)
           /\ Len(planOut.issues) = Cardinality(FailingChecks(plan, constraints))

\* C5: validatePlan never throws; it returns a {valid, issues} result for
\* every plan and constraints, a plan of bare steps included.
C5_ValidateNeverThrows ==
    planOp = "validatePlan" => planOut.kind = "ok"

(***************************************************************************)
(* Claims about createPlan.                                                *)
(***************************************************************************)

\* C7: the first step of the plan returned by createPlan is of type analyze
\* and has no dependencies.
C7_LeadingAnalyzeStep ==
    (planOp = "createPlan" /\ planOut.kind = "ok")
        => /\ Len(planOut.plan.steps) >= 1
           /\ planOut.plan.steps[1].type = "analyze"
           /\ planOut.plan.steps[1].dependencies = <<>>

\* A refactoring task: the plan has the analysis step, the task's own
\* steps and the closing steps, and the analysis step leads.
C7_RefactorPlanLeadsWithAnalysis ==
    /\ planOp = "createPlan"
    /\ planOut.kind = "ok"
    /\ Len(planOut.plan.steps) >= 5
    /\ planOut.plan.steps[1].id = IdAnalyze
    /\ planOut.plan.steps[1].type = "analyze"

\* C8: the last step of the plan returned by createPlan is the validate
\* step, and its dependency set is the set of all other steps of the plan.
C8_TerminalValidateStep ==
    (planOp = "createPlan" /\ planOut.kind = "ok")
        => LET ss == planOut.plan.steps
               last == ss[Len(ss)]
           IN /\ last.type = "validate"
              /\ Range(last.dependencies) = StepIds(ss) \ {last.id}

(***************************************************************************)
(* AgentCore.executeTask (src/unnamed/part_003, lines 70-144) and what it  *)
(* calls.  An invocation runs until its next await; the action that        *)
(* resumes it carries the outcome of what it awaited.  calls[i].pc names   *)
(* the await at which invocation i is suspended.                           *)
(***************************************************************************)

\* The step types a plan returned by the planning call may carry.  The
\* switch of executeStep has cases for the first four and no default.
StepTypes == {"analyze", "edit", "test", "validate", "review"}

\* A step object of the parsed plan: executeStep has not touched it yet.
PlanStep(type) == [type |-> type, status |-> "none", changes |-> <<>>]

\* The plans the planning call may answer with.
Plans ==
    UNION {{[k \in 1..n |-> PlanStep(f[k])] : f \in [1..n -> StepTypes]} :
           n \in 0..MaxExecSteps}

\* Messages of the errors the collaborators raise.
TaskCancelled == "Task cancelled"
ErrAnalyzeCodebase == "analyzeCodebase failed"
ErrApi == "api error"
ErrJson == "Unexpected token in JSON"
ErrRank == "rankRelevantFiles failed"
ErrPrepare == "prepareContext failed"
ErrAnalyzeFiles == "files is not iterable"
ErrDiff == "createDiff failed"
ErrPreview == "preview failed"
ErrApply == "applyChange failed"

\* The awaits inside the withProgress callback that wait for a collaborator
\* (the API, the preprocessor, the editor, the user): while the callback is
\* suspended there, other events are handled, a click on Cancel among them.
InProgress ==
    {"analyzeCodebase", "callClaude", "delay", "rankRelevantFiles",
     "prepareContext", "analyzeFiles", "createDiff", "preview", "review",
     "applyChange"}

\* What callClaude hands to addUsage: the purpose, the model and mode the
\* call ran under (the key completeTask groups by), and the prompt and
\* completion tokens, which the ledger only ever adds up.
Usage(purpose, model, tokens) ==
    [purpose |-> purpose, model |-> model, tokens |-> tokens]

\* The record of one call of the executor: the model and mode are not
\* changed while tasks run, and every call counts as one unit of tokens.
CallUsage(purpose) == Usage(purpose, "claude-opus-4-thinking", 1)

\* SessionState.addUsage: one more usage record, stamped with the time.
addUsage(u, r) ==
    Append(u, [purpose |-> r.purpose, model |-> r.model, tokens |-> r.tokens,
               timestamp |-> now])

\* SessionState.addTask: one more task record, holding the task object,
\* opened at the time of the call, with no end time and empty totals.
addTask(st, i) ==
    Append(st, [task |-> i, startTime |-> now, endTime |-> <<>>,
                total |-> 0, byPurpose |-> <<>>, byModel |-> <<>>])

\* ---- SessionState.save -------------------------------------------------

\* Bound: the save() calls in flight at one time.
MaxSaves == 2

\* A Date object of the session, for the time t the ledger holds.
Date(t) == [date |-> t]

\* An optional Date (<<>>: undefined).
OptionalDate(end) == IF end = <<>> THEN <<>> ELSE <<Date(end[1])>>

\* currentSession, as far as the ledger goes: SessionState was constructed
\* at time 0.
currentSession(st, u, end) ==
    [startTime |-> Date(0),
     endTime |-> OptionalDate(end),
     tasks |-> [n \in DOMAIN st |->
                  [st[n] EXCEPT !.startTime = Date(@),
                                !.endTime = OptionalDate(@)]],
     usage |-> [n \in DOMAIN u |-> [u[n] EXCEPT !.timestamp = Date(@)]]]

\* Date.prototype.toISOString, as JSON.stringify applies it through
\* Date.prototype.toJSON: a string, no Date.
toISOString(d) == [iso |-> d.date]

\* An optional Date of the document: a key whose value is undefined is left
\* out.
OptionalISO(end) == IF end = <<>> THEN <<>> ELSE <<toISOString(end[1])>>

\* JSON.stringify(session, null, 2): the text, as the JSON value it spells.
stringify(session) ==
    [json |->
        [startTime |-> toISOString(session.startTime),
         endTime |-> OptionalISO(session.endTime),
         tasks |-> [n \in DOMAIN session.tasks |->
                      [session.tasks[n] EXCEPT !.startTime = toISOString(@),
                                               !.endTime = OptionalISO(@)]],
         usage |-> [n \in DOMAIN session.usage |->
                      [session.usage[n] EXCEPT !.timestamp = toISOString(@)]]]]

\* JSON.parse(data), with no reviver: the value the text spells.
parse(data) == data.json

\* The sequence q without its k-th element.
Without(q, k) == SubSeq(q, 1, k - 1) \o SubSeq(q, k + 1, Len(q))

\* The promise of a save() called by operation `by` is rejected: the
\* autosave's catch reports it, any other caller's promise is rejected too.
Rejects(by) ==
    IF by = "autoSave"
    THEN logged' = logged \cup {by} /\ UNCHANGED rejected
    ELSE rejected' = rejected \cup {by} /\ UNCHANGED logged

\* save(), called by operation `by` on the session it leaves, up to its
\* first await: getSessionPath's mkdir (or its throw when there is no
\* workspace folder), or the writeFile of the document made now.
save(by, session) ==
    /\ Len(saves) < MaxSaves
    /\ IF sessionPath # ""
       THEN /\ saves' = Append(saves, [pc |-> "writeFile", by |-> by,
                                       data |-> stringify(session)])
            /\ UNCHANGED <<rejected, logged>>
       ELSE IF folder
       THEN /\ saves' = Append(saves, [pc |-> "mkdir", by |-> by, data |-> <<>>])
            /\ UNCHANGED <<rejected, logged>>
       ELSE /\ Rejects(by)
            /\ UNCHANGED saves
    /\ UNCHANGED <<folder, sessionPath, disk, loaded>>

\* planTask's copy of the plan's steps into task.steps.
TaskStepsOf(p) == [k \in DOMAIN p |-> [type |-> p[k].type, status |-> "pending"]]

\* Bound: the attempts one callClaude request is followed through.
MaxAttempts == 3

\* What became of the API call in flight, if there is one, when an error
\* is thrown: the API's own error is its answer; any other error is thrown
\* by the code that reads a text the API answered with.
Settled(c, msg) ==
    IF c.outcome = "pending"
    THEN IF msg = ErrApi THEN "error" ELSE "ok"
    ELSE c.outcome

\* An error leaves the withProgress callback: the promise executeTask awaits
\* is rejected with it.
Throw(i, msg) ==
    calls' = [calls EXCEPT ![i].pc = "rejected", ![i].thrown = msg,
                           ![i].attempts = 0,
                           ![i].outcome = Settled(calls[i], msg)]

\* A variant of the loop over the changes without the test of
\* change.approved: the change at position j, approved or not (0: none).
NextProposed(fc, j) == IF j <= Len(fc) THEN j ELSE 0

\* The first change at position j or later that the user approved (0: none).
NextApproved(fc, j) ==
    IF \E n \in j..Len(fc) : fc[n].approved
    THEN CHOOSE n \in j..Len(fc) :
            fc[n].approved /\ \A m \in j..(n - 1) : ~fc[m].approved
    ELSE 0

\* A variant of executeStep's catch that marks the step failed and does not
\* throw: the loop of executeTask goes on.
StepFailedSwallowed(i, msg) ==
    calls' = [calls EXCEPT ![i].plan[calls[i].idx].status = "failed",
                           ![i].idx = @ + 1,
                           ![i].pc = "loop",
                           ![i].purpose = "none",
                           ![i].fileChanges = <<>>,
                           ![i].j = 0,
                           ![i].attempts = 0,
                           ![i].outcome = Settled(calls[i], msg)]

\* executeStep's catch: the step is marked failed and the error is thrown on.
StepFailed(i, msg) ==
    calls' = [calls EXCEPT ![i].plan[calls[i].idx].status = "failed",
                           ![i].pc = "rejected",
                           ![i].thrown = msg,
                           ![i].attempts = 0,
                           ![i].outcome = Settled(calls[i], msg)]

\* A variant of executeStep that returns without marking the step: the loop
\* of executeTask moves on while the step still reads running.
StepLeftRunning(i, fc) ==
    calls' = [calls EXCEPT ![i].plan[calls[i].idx].changes = fc,
                           ![i].idx = @ + 1,
                           ![i].pc = "loop",
                           ![i].purpose = "none",
                           ![i].fileChanges = <<>>,
                           ![i].j = 0]

\* executeStep after its switch: the step is marked completed, and the for
\* loop of executeTask moves on.  fc is what executeEditStep stored in
\* step.changes (empty for the other step types).
StepCompleted(i, fc) ==
    calls' = [calls EXCEPT ![i].plan[calls[i].idx].status = "completed",
                           ![i].plan[calls[i].idx].changes = fc,
                           ![i].idx = @ + 1,
                           ![i].pc = "loop",
                           ![i].purpose = "none",
                           ![i].fileChanges = <<>>,
                           ![i].j = 0]

\* executeEditStep's loop over the approved changes: suspended in the first
\* applyChange, or through when nothing was approved.
BeginApply(i, fc) ==
    LET n == NextApproved(fc, 1)
    IN  IF n = 0
        THEN StepCompleted(i, fc)
        ELSE calls' = [calls EXCEPT ![i].fileChanges = fc,
                                    ![i].pc = "applyChange",
                                    ![i].j = n]

\* The task object is created and registered, and planTask starts.
CreateTask(i) ==
    /\ tasks' = [tasks EXCEPT ![i] =
                    [status |-> "pending", error |-> "none", steps |-> <<>>]]
    /\ currentTask' = i
    /\ taskQueue' = Append(taskQueue, i)
    /\ calls' = [calls EXCEPT ![i].pc = "analyzeCodebase"]

\* executeTask is invoked (the invocations are numbered in the order in
\* which they are made).
ExecuteTask(i) ==
    /\ calls[i].pc = "idle"
    /\ \A j \in Invocations : j < i => calls[j].pc # "idle"
    /\ IF anthropic
       THEN CreateTask(i)
       ELSE /\ calls' = [calls EXCEPT ![i].pc = "getApiKey"]
            /\ UNCHANGED <<tasks, currentTask, taskQueue>>
    /\ UNCHANGED <<anthropic, usage, sessionTasks, reports, applied>>
    /\ UNCHANGED <<planVars, ctxVars, storeVars, now>>

\* apiKeyManager.getApiKey() answers.
GetApiKey(i, key) ==
    /\ calls[i].pc = "getApiKey"
    /\ IF key
       THEN /\ anthropic' = TRUE
            /\ CreateTask(i)
       ELSE /\ calls' = [calls EXCEPT ![i].pc = "setApiKey"]
            /\ UNCHANGED <<anthropic, tasks, currentTask, taskQueue>>
    /\ UNCHANGED <<usage, sessionTasks, reports, applied>>
    /\ UNCHANGED <<planVars, ctxVars, storeVars, now>>

\* The setApiKey command is through; executeTask returns without a task.
SetApiKeyCommand(i) ==
    /\ calls[i].pc = "setApiKey"
    /\ calls' = [calls EXCEPT ![i].pc = "returned"]
    /\ UNCHANGED <<anthropic, tasks, currentTask, taskQueue, usage,
                   sessionTasks, reports, applied>>
    /\ UNCHANGED <<planVars, ctxVars, storeVars, now>>

\* The user presses Cancel on the progress notification.
Cancel(i) ==
    /\ calls[i].pc \in InProgress
    /\ ~calls[i].cancelled
    /\ calls' = [calls EXCEPT ![i].cancelled = TRUE]
    /\ UNCHANGED <<anthropic, tasks, currentTask, taskQueue, usage,
                   sessionTasks, reports, applied>>
    /\ UNCHANGED <<planVars, ctxVars, storeVars, now>>

\* planTask: preprocessorManager.analyzeCodebase() answers, and the
\* planning call is made.
AnalyzeCodebase(i, ok) ==
    /\ calls[i].pc = "analyzeCodebase"
    /\ IF ok
       THEN calls' = [calls EXCEPT ![i].pc = "callClaude",
                                   ![i].purpose = "planning",
                                   ![i].attempts = 1,
                                   ![i].outcome = "pending"]
       ELSE Throw(i, ErrAnalyzeCodebase)
    /\ UNCHANGED <<anthropic, tasks, currentTask, taskQueue, usage,
                   sessionTasks, reports, applied>>
    /\ UNCHANGED <<planVars, ctxVars, storeVars, now>>

\* callClaude: the API rejects the call with a rate_limit error, and the
\* call waits for the retry delay.
CallClaudeRateLimited(i) ==
    /\ calls[i].pc = "callClaude"
    /\ calls[i].attempts < MaxAttempts
    /\ calls' = [calls EXCEPT ![i].pc = "delay", ![i].outcome = "rate_limit"]
    /\ UNCHANGED <<anthropic, tasks, currentTask, taskQueue, usage,
                   sessionTasks, reports, applied>>
    /\ UNCHANGED <<planVars, ctxVars, storeVars, now>>

\* callClaude: the retry delay is over, and the call is made again.
DelayElapsed(i) ==
    /\ calls[i].pc = "delay"
    /\ calls' = [calls EXCEPT ![i].pc = "callClaude",
                              ![i].attempts = @ + 1,
                              ![i].outcome = "pending"]
    /\ UNCHANGED <<anthropic, tasks, currentTask, taskQueue, usage,
                   sessionTasks, reports, applied>>
    /\ UNCHANGED <<planVars, ctxVars, storeVars, now>>

\* A variant of callClaude's catch that treats every error as a rate limit:
\* it waits for the retry delay instead of throwing the error on.
CallClaudeFailsThenWaits(i) ==
    /\ calls[i].pc = "callClaude"
    /\ calls' = [calls EXCEPT ![i].pc = "delay", ![i].outcome = "error"]
    /\ UNCHANGED <<anthropic, tasks, currentTask, taskQueue, usage,
                   sessionTasks, reports, applied>>
    /\ UNCHANGED <<planVars, ctxVars, storeVars, now>>

\* callClaude: the API rejects the call with any other error, which
\* callClaude throws on: out of planTask, or out of the edit step.
CallClaudeFails(i) ==
    /\ calls[i].pc = "callClaude"
    /\ IF calls[i].purpose = "planning"
       THEN Throw(i, ErrApi)
       ELSE StepFailed(i, ErrApi)
    /\ UNCHANGED <<anthropic, tasks, currentTask, taskQueue, usage,
                   sessionTasks, reports, applied>>
    /\ UNCHANGED <<planVars, ctxVars, storeVars, now>>

\* The planning call answers with a plan: callClaude records the usage,
\* planTask parses the answer and copies its steps into task.steps.
PlanningAnswer(i, p) ==
    /\ calls[i].pc = "callClaude"
    /\ calls[i].purpose = "planning"
    /\ usage' = addUsage(usage, CallUsage("planning"))
    /\ tasks' = [tasks EXCEPT ![i].steps = TaskStepsOf(p)]
    /\ calls' = [calls EXCEPT ![i].pc = "planned",
                              ![i].purpose = "none",
                              ![i].plan = p,
                              ![i].attempts = 0,
                              ![i].outcome = "ok"]
    /\ UNCHANGED <<anthropic, currentTask, taskQueue, sessionTasks, reports,
                   applied>>
    /\ UNCHANGED <<planVars, ctxVars, storeVars, now>>

\* The planning call answers with a text that JSON.parse refuses, or with
\* an object without steps.
PlanningUnparsable(i) ==
    /\ calls[i].pc = "callClaude"
    /\ calls[i].purpose = "planning"
    /\ usage' = addUsage(usage, CallUsage("planning"))
    /\ Throw(i, ErrJson)
    /\ UNCHANGED <<anthropic, tasks, currentTask, taskQueue, sessionTasks,
                   reports, applied>>
    /\ UNCHANGED <<planVars, ctxVars, storeVars, now>>

\* executeTask after planTask: the cancellation check, then gatherContext.
AfterPlan(i) ==
    /\ calls[i].pc = "planned"
    /\ IF calls[i].cancelled
       THEN Throw(i, TaskCancelled)
       ELSE calls' = [calls EXCEPT ![i].pc = "rankRelevantFiles"]
    /\ UNCHANGED <<anthropic, tasks, currentTask, taskQueue, usage,
                   sessionTasks, reports, applied>>
    /\ UNCHANGED <<planVars, ctxVars, storeVars, now>>

\* gatherContext: preprocessorManager.rankRelevantFiles() answers.
RankRelevantFiles(i, ok) ==
    /\ calls[i].pc = "rankRelevantFiles"
    /\ IF ok
       THEN calls' = [calls EXCEPT ![i].pc = "prepareContext"]
       ELSE Throw(i, ErrRank)
    /\ UNCHANGED <<anthropic, tasks, currentTask, taskQueue, usage,
                   sessionTasks, reports, applied>>
    /\ UNCHANGED <<planVars, ctxVars, storeVars, now>>

\* gatherContext: contextManager.prepareContext() answers; the loop over
\* the plan's steps is entered.
PrepareContext(i, ok) ==
    /\ calls[i].pc = "prepareContext"
    /\ IF ok
       THEN calls' = [calls EXCEPT ![i].pc = "loop", ![i].idx = 1]
       ELSE Throw(i, ErrPrepare)
    /\ UNCHANGED <<anthropic, tasks, currentTask, taskQueue, usage,
                   sessionTasks, reports, applied>>
    /\ UNCHANGED <<planVars, ctxVars, storeVars, now>>

\* One iteration of the loop over plan.steps: the cancellation check, then
\* executeStep marks the step running and enters the case of its type.
NextStep(i) ==
    /\ calls[i].pc = "loop"
    /\ calls[i].idx <= Len(calls[i].plan)
    /\ IF calls[i].cancelled
       THEN Throw(i, TaskCancelled)
       ELSE LET type == calls[i].plan[calls[i].idx].type
            IN  calls' = [calls EXCEPT
                    ![i].plan[calls[i].idx].status = "running",
                    ![i].purpose = IF type = "edit" THEN "editing" ELSE "none",
                    ![i].attempts = IF type = "edit" THEN 1 ELSE 0,
                    ![i].outcome = IF type = "edit" THEN "pending" ELSE @,
                    ![i].pc = CASE type = "analyze" -> "analyzeFiles"
                                [] type = "edit" -> "callClaude"
                                [] OTHER -> "syncStep"]
    /\ UNCHANGED <<anthropic, tasks, currentTask, taskQueue, usage,
                   sessionTasks, reports, applied>>
    /\ UNCHANGED <<planVars, ctxVars, storeVars, now>>

\* executeAnalyzeStep: preprocessorManager.analyzeFiles() answers.
AnalyzeFiles(i, ok) ==
    /\ calls[i].pc = "analyzeFiles"
    /\ IF ok THEN StepCompleted(i, <<>>) ELSE StepFailed(i, ErrAnalyzeFiles)
    /\ UNCHANGED <<anthropic, tasks, currentTask, taskQueue, usage,
                   sessionTasks, reports, applied>>
    /\ UNCHANGED <<planVars, ctxVars, storeVars, now>>

\* executeTestStep, executeValidateStep, or no case at all: nothing awaited.
SyncStep(i) ==
    /\ calls[i].pc = "syncStep"
    /\ StepCompleted(i, <<>>)
    /\ UNCHANGED <<anthropic, tasks, currentTask, taskQueue, usage,
                   sessionTasks, reports, applied>>
    /\ UNCHANGED <<planVars, ctxVars, storeVars, now>>

\* The editing call answers with k changes: callClaude records the usage,
\* executeEditStep parses the answer and starts on the diffs.
EditingAnswer(i, k) ==
    /\ calls[i].pc = "callClaude"
    /\ calls[i].purpose = "editing"
    /\ usage' = addUsage(usage, CallUsage("editing"))
    /\ calls' = [calls EXCEPT
            ![i].attempts = 0,
            ![i].outcome = "ok",
            ![i].fileChanges = [n \in 1..k |-> [approved |-> FALSE]],
            ![i].pc = IF k = 0 THEN "preview" ELSE "createDiff",
            ![i].j = IF k = 0 THEN 0 ELSE 1]
    /\ UNCHANGED <<anthropic, tasks, currentTask, taskQueue, sessionTasks,
                   reports, applied>>
    /\ UNCHANGED <<planVars, ctxVars, storeVars, now>>

\* The editing call answers with a text that JSON.parse refuses.
EditingUnparsable(i) ==
    /\ calls[i].pc = "callClaude"
    /\ calls[i].purpose = "editing"
    /\ usage' = addUsage(usage, CallUsage("editing"))
    /\ StepFailed(i, ErrJson)
    /\ UNCHANGED <<anthropic, tasks, currentTask, taskQueue, sessionTasks,
                   reports, applied>>
    /\ UNCHANGED <<planVars, ctxVars, storeVars, now>>

\* executeEditStep: diffManager.createDiff() answers for change j.
CreateDiff(i, ok) ==
    /\ calls[i].pc = "createDiff"
    /\ IF ~ok
       THEN StepFailed(i, ErrDiff)
       ELSE IF calls[i].j < Len(calls[i].fileChanges)
            THEN calls' = [calls EXCEPT ![i].j = @ + 1]
            ELSE calls' = [calls EXCEPT ![i].pc = "preview", ![i].j = 0]
    /\ UNCHANGED <<anthropic, tasks, currentTask, taskQueue, usage,
                   sessionTasks, reports, applied>>
    /\ UNCHANGED <<planVars, ctxVars, storeVars, now>>

\* What the modal of showChangesPreview may come back with ("dismissed": the
\* modal was closed without a choice; "error": the preview document could
\* not be opened or shown).
PreviewResults == {"Apply All", "Review Each", "Cancel", "dismissed", "error"}

\* showChangesPreview: the user answers the modal.
ShowChangesPreview(i, result) ==
    /\ calls[i].pc = "preview"
    /\ LET fc == calls[i].fileChanges
       IN  CASE result = "Apply All" ->
                    BeginApply(i, [n \in DOMAIN fc |-> [approved |-> TRUE]])
             [] result = "Review Each" ->
                    IF fc = <<>>
                    THEN StepCompleted(i, fc)
                    ELSE calls' = [calls EXCEPT ![i].pc = "review", ![i].j = 1]
             [] result \in {"Cancel", "dismissed"} -> StepCompleted(i, fc)
             [] OTHER -> StepFailed(i, ErrPreview)
    /\ UNCHANGED <<anthropic, tasks, currentTask, taskQueue, usage,
                   sessionTasks, reports, applied>>
    /\ UNCHANGED <<planVars, ctxVars, storeVars, now>>

\* showChangesPreview, 'Review Each': the user answers for change j.
ReviewChange(i, yes) ==
    /\ calls[i].pc = "review"
    /\ LET fc == [calls[i].fileChanges EXCEPT ![calls[i].j].approved = yes]
       IN  IF calls[i].j < Len(fc)
           THEN calls' = [calls EXCEPT ![i].fileChanges = fc, ![i].j = @ + 1]
           ELSE BeginApply(i, fc)
    /\ UNCHANGED <<anthropic, tasks, currentTask, taskQueue, usage,
                   sessionTasks, reports, applied>>
    /\ UNCHANGED <<planVars, ctxVars, storeVars, now>>

\* executeEditStep: fileEditor.applyChange() answers for the approved
\* change j; the loop goes on to the next approved change.
ApplyChange(i, ok) ==
    /\ calls[i].pc = "applyChange"
    /\ IF ok
       THEN /\ applied' = Append(applied, <<i, calls[i].idx, calls[i].j>>)
            /\ LET n == NextApproved(calls[i].fileChanges, calls[i].j + 1)
               IN  IF n = 0
                   THEN StepCompleted(i, calls[i].fileChanges)
                   ELSE calls' = [calls EXCEPT ![i].j = n]
       ELSE /\ StepFailed(i, ErrApply)
            /\ UNCHANGED applied
    /\ UNCHANGED <<anthropic, tasks, currentTask, taskQueue, usage,
                   sessionTasks, reports>>
    /\ UNCHANGED <<planVars, ctxVars, storeVars, now>>

\* The loop over plan.steps is through: validateAndFinalize adds its report.
ValidateAndFinalize(i) ==
    /\ calls[i].pc = "loop"
    /\ calls[i].idx > Len(calls[i].plan)
    /\ reports' = Append(reports, [task |-> i, status |-> tasks[i].status])
    /\ calls' = [calls EXCEPT ![i].pc = "finalized"]
    /\ UNCHANGED <<anthropic, tasks, currentTask, taskQueue, usage,
                   sessionTasks, applied>>
    /\ UNCHANGED <<planVars, ctxVars, storeVars, now>>

\* getSessionPath's mkdir answers for the k-th save in flight: the path is
\* kept and the document is made and handed to writeFile, or save() rejects.
MkdirDone(k, ok) ==
    /\ k \in DOMAIN saves
    /\ saves[k].pc = "mkdir"
    /\ IF ok
       THEN /\ sessionPath' = "session.json"
            /\ saves' = [saves EXCEPT
                    ![k].pc = "writeFile",
                    ![k].data = stringify(currentSession(sessionTasks, usage,
                                                         sessionEnd))]
            /\ UNCHANGED <<rejected, logged>>
       ELSE /\ saves' = Without(saves, k)
            /\ Rejects(saves[k].by)
            /\ UNCHANGED sessionPath
    /\ UNCHANGED <<folder, sessionEnd, disk, loaded>>
    /\ UNCHANGED <<planVars, execVars, ctxVars>>

\* fs.writeFile answers for the k-th save in flight: the document is on
\* disk, or the catch of save() reports the failure.
WriteFileDone(k, ok) ==
    /\ k \in DOMAIN saves
    /\ saves[k].pc = "writeFile"
    /\ saves' = Without(saves, k)
    /\ IF ok
       THEN disk' = saves[k].data /\ UNCHANGED logged
       ELSE logged' = logged \cup {saves[k].by} /\ UNCHANGED disk
    /\ UNCHANGED <<folder, sessionPath, sessionEnd, rejected, loaded>>
    /\ UNCHANGED <<planVars, execVars, ctxVars>>

\* withProgress resolved: the task is completed, handed to the session
\* ledger, and no longer the current task.
Completed(i) ==
    /\ calls[i].pc = "finalized"
    /\ tasks' = [tasks EXCEPT ![i].status = "completed"]
    /\ sessionTasks' = addTask(sessionTasks, i)
    /\ currentTask' = 0
    /\ calls' = [calls EXCEPT ![i].pc = "done"]
    /\ UNCHANGED <<anthropic, taskQueue, usage, reports, applied>>
    /\ save("addTask", currentSession(sessionTasks', usage, sessionEnd))
    /\ UNCHANGED sessionEnd
    /\ UNCHANGED <<planVars, ctxVars, now>>

\* withProgress rejected: the catch of executeTask marks the task failed
\* with the error's message; the task is handed to the session ledger.
Catch(i) ==
    /\ calls[i].pc = "rejected"
    /\ tasks' = [tasks EXCEPT ![i].status = "failed",
                              ![i].error = calls[i].thrown]
    /\ sessionTasks' = addTask(sessionTasks, i)
    /\ currentTask' = 0
    /\ calls' = [calls EXCEPT ![i].pc = "done"]
    /\ UNCHANGED <<anthropic, taskQueue, usage, reports, applied>>
    /\ save("addTask", currentSession(sessionTasks', usage, sessionEnd))
    /\ UNCHANGED sessionEnd
    /\ UNCHANGED <<planVars, ctxVars, now>>

\* A freshly constructed agent; initializeAnthropic may or may not have
\* found an API key.
Init ==
    /\ anthropic \in BOOLEAN
    /\ ExecutorAtRest
    /\ StoreAtRest
    /\ folder \in BOOLEAN
    /\ PackerAtRest
    /\ steps = NoSteps
    /\ plan = NoPlan
    /\ constraints = NoConstraints
    /\ description = NoDescription
    /\ analysis = NoAnalysis
    /\ planOp = "none"
    /\ planOut = NoOut

Next ==
    \E i \in Alone :
        \/ ExecuteTask(i)
        \/ \E key \in BOOLEAN : GetApiKey(i, key)
        \/ SetApiKeyCommand(i)
        \/ Cancel(i)
        \/ \E ok \in BOOLEAN : AnalyzeCodebase(i, ok)
        \/ CallClaudeRateLimited(i)
        \/ DelayElapsed(i)
        \/ CallClaudeFails(i)
        \/ \E p \in Plans : PlanningAnswer(i, p)
        \/ PlanningUnparsable(i)
        \/ AfterPlan(i)
        \/ \E ok \in BOOLEAN : RankRelevantFiles(i, ok)
        \/ \E ok \in BOOLEAN : PrepareContext(i, ok)
        \/ NextStep(i)
        \/ \E ok \in BOOLEAN : AnalyzeFiles(i, ok)
        \/ SyncStep(i)
        \/ \E k \in 0..MaxChanges : EditingAnswer(i, k)
        \/ EditingUnparsable(i)
        \/ \E ok \in BOOLEAN : CreateDiff(i, ok)
        \/ \E result \in PreviewResults : ShowChangesPreview(i, result)
        \/ \E yes \in BOOLEAN : ReviewChange(i, yes)
        \/ \E ok \in BOOLEAN : ApplyChange(i, ok)
        \/ ValidateAndFinalize(i)
        \/ Completed(i)
        \/ Catch(i)
        \/ \E k \in 1..MaxSaves, ok \in BOOLEAN : MkdirDone(k, ok)
        \/ \E k \in 1..MaxSaves, ok \in BOOLEAN : WriteFileDone(k, ok)

Spec == Init /\ [][Next]_vars

\* The plans without an edit step: their steps make no call to the API.
PlainPlans == {p \in Plans : \A k \in DOMAIN p : p[k].type # "edit"}

\* The executeTask command issued again while earlier invocations are
\* suspended: the invocations interleave at their awaits. (No edit steps, no
\* rate limits and no cancellation here.)
NextOverlap ==
    \E i \in Invocations :
        \/ ExecuteTask(i)
        \/ \E key \in BOOLEAN : GetApiKey(i, key)
        \/ SetApiKeyCommand(i)
        \/ \E ok \in BOOLEAN : AnalyzeCodebase(i, ok)
        \/ CallClaudeFails(i)
        \/ \E p \in PlainPlans : PlanningAnswer(i, p)
        \/ PlanningUnparsable(i)
        \/ AfterPlan(i)
        \/ \E ok \in BOOLEAN : RankRelevantFiles(i, ok)
        \/ \E ok \in BOOLEAN : PrepareContext(i, ok)
        \/ NextStep(i)
        \/ \E ok \in BOOLEAN : AnalyzeFiles(i, ok)
        \/ SyncStep(i)
        \/ ValidateAndFinalize(i)
        \/ Completed(i)
        \/ Catch(i)

\* A freshly constructed agent in a window without a workspace folder:
\* no save() gets as far as a write.
InitNoFolder == Init /\ ~folder

SpecOverlap == InitNoFolder /\ [][NextOverlap]_vars

\* getCurrentTask(): the invocation whose task is the current one, 0 for null.
getCurrentTask == currentTask

(***************************************************************************)
(* SessionState's ledger (src/unnamed/part_003, lines 544-621) under the   *)
(* calls its API allows, with the clock running.                           *)
(***************************************************************************)

\* Bound: the clock's last tick.
MaxTime == 2

\* Bound: the usage records of a session.
MaxUsage == 3

\* Bound: promptTokens + completionTokens of one call.
MaxTokens == 2

\* What callClaude is called for.
Purposes == {"planning", "editing"}

\* The sum of promptTokens + completionTokens over the records of u.
RECURSIVE TokensOf(_)
TokensOf(u) == IF u = <<>> THEN 0 ELSE Head(u).tokens + TokensOf(Tail(u))

\* The loop of completeTask that groups the related usage into the totals
\* held so far, by the records' purpose or by their model key: key k gets
\* (old[k] || 0) plus the tokens of its records.
Tally(old, relatedUsage, field) ==
    LET keys == DOMAIN old \cup {relatedUsage[n][field] : n \in DOMAIN relatedUsage}
    IN  [k \in keys |->
            (IF k \in DOMAIN old THEN old[k] ELSE 0)
                + TokensOf(SelectSeq(relatedUsage, LAMBDA r : r[field] = k))]

\* completeTask's filter: the usage records of the task's window.
InWindow(r, startTime, endTime) ==
    r.timestamp >= startTime /\ r.timestamp <= endTime

\* completeTask(taskId) on the task records st and the usage records u.
completeTask(st, u, taskId) ==
    IF \A n \in DOMAIN st : st[n].task # taskId
    THEN st
    ELSE LET n == CHOOSE n \in DOMAIN st :
                    st[n].task = taskId /\ \A m \in 1..(n - 1) : st[m].task # taskId
             endTime == now
             relatedUsage ==
                 SelectSeq(u, LAMBDA r : InWindow(r, st[n].startTime, endTime))
         IN  [st EXCEPT ![n].endTime = <<endTime>>,
                        ![n].total = TokensOf(relatedUsage),
                        ![n].byPurpose = Tally(@, relatedUsage, "purpose"),
                        ![n].byModel = Tally(@, relatedUsage, "model")]

\* Time passes.
Tick ==
    /\ now < MaxTime
    /\ now' = now + 1
    /\ UNCHANGED <<anthropic, calls, tasks, currentTask, taskQueue, usage,
                   sessionTasks, reports, applied>>
    /\ UNCHANGED <<planVars, ctxVars, storeVars>>

\* sessionState.addUsage(usage)
AddUsage(purpose, tokens) ==
    /\ Len(usage) < MaxUsage
    /\ usage' = addUsage(usage, Usage(purpose, "claude-opus-4-thinking", tokens))
    /\ UNCHANGED <<anthropic, calls, tasks, currentTask, taskQueue,
                   sessionTasks, reports, applied, now>>
    /\ UNCHANGED <<planVars, ctxVars, storeVars>>

\* sessionState.addTask(task), for a task the ledger does not hold yet.
AddTask(i) ==
    /\ \A n \in DOMAIN sessionTasks : sessionTasks[n].task # i
    /\ sessionTasks' = addTask(sessionTasks, i)
    /\ UNCHANGED <<anthropic, calls, tasks, currentTask, taskQueue, usage,
                   reports, applied, now>>
    /\ save("addTask", currentSession(sessionTasks', usage, sessionEnd))
    /\ UNCHANGED sessionEnd
    /\ UNCHANGED <<planVars, ctxVars>>

\* Bound: the tokens a record's byPurpose may hold when completeTask is
\* called for it again.
MaxTallied == 1

\* The sum of the values of a tokenUsage map.
RECURSIVE TallySum(_)
TallySum(f) ==
    IF DOMAIN f = {} THEN 0
    ELSE LET k == CHOOSE k \in DOMAIN f : TRUE
         IN  f[k] + TallySum([x \in DOMAIN f \ {k} |-> f[x]])

\* sessionState.completeTask(taskId); each call adds the window's tokens to
\* byPurpose and byModel once more.
CompleteTask(taskId) ==
    /\ \A n \in DOMAIN sessionTasks :
          sessionTasks[n].task = taskId =>
              TallySum(sessionTasks[n].byPurpose) <= MaxTallied
    /\ sessionTasks' = completeTask(sessionTasks, usage, taskId)
    /\ UNCHANGED <<anthropic, calls, tasks, currentTask, taskQueue, usage,
                   reports, applied, now>>
    /\ save("completeTask", currentSession(sessionTasks', usage, sessionEnd))
    /\ UNCHANGED sessionEnd
    /\ UNCHANGED <<planVars, ctxVars>>

NextLedger ==
    \/ Tick
    \/ \E purpose \in Purposes, tokens \in 1..MaxTokens : AddUsage(purpose, tokens)
    \/ \E i \in Invocations : AddTask(i)
    \/ \E taskId \in Invocations : CompleteTask(taskId)

SpecLedger == InitNoFolder /\ [][NextLedger]_vars

\* The autosave interval fires (until endSession clears it): save(), with
\* console.error as the catch of its promise.
AutoSave ==
    /\ sessionEnd = <<>>
    /\ save("autoSave", currentSession(sessionTasks, usage, sessionEnd))
    /\ UNCHANGED sessionEnd
    /\ UNCHANGED <<planVars, execVars, ctxVars>>

\* sessionState.endSession(): the end time is set and save() is called,
\* its promise left alone.
EndSession ==
    /\ sessionEnd = <<>>
    /\ sessionEnd' = <<now>>
    /\ save("endSession", currentSession(sessionTasks, usage, <<now>>))
    /\ UNCHANGED <<planVars, execVars, ctxVars>>

\* sessionState.loadSession(currentSession.id): the parsed document, or null
\* when there is no workspace folder or the file cannot be read.
LoadSession ==
    /\ loaded = <<>>
    /\ loaded' = IF folder /\ disk # <<>> THEN <<parse(disk)>> ELSE <<>>
    /\ UNCHANGED <<folder, sessionPath, sessionEnd, saves, disk, rejected,
                   logged>>
    /\ UNCHANGED <<planVars, execVars, ctxVars>>

\* The session file under the ledger's saving operations, the autosave and
\* the answers of the file system, in any order.
NextStore ==
    \/ \E i \in Alone : AddTask(i)
    \/ \E taskId \in Alone : CompleteTask(taskId)
    \/ AutoSave
    \/ EndSession
    \/ \E k \in 1..MaxSaves, ok \in BOOLEAN : MkdirDone(k, ok)
    \/ \E k \in 1..MaxSaves, ok \in BOOLEAN : WriteFileDone(k, ok)
    \/ LoadSession

SpecStore == Init /\ [][NextStore]_vars

\* executeTask with the clock running.
NextTimed == Next \/ Tick

SpecTimed == Init /\ [][NextTimed]_vars

(***************************************************************************)
(* Claims about executeTask.                                               *)
(***************************************************************************)

\* C9: while a step of its plan executes, the Task is in status running
\* (the Task goes from pending to running, and from running to completed or
\* failed).
C9_RunningWhileStepsExecute ==
    \A i \in Invocations :
        (\E k \in DOMAIN calls[i].plan : calls[i].plan[k].status = "running")
            => tasks[i].status = "running"

\* The messages of the errors a step can raise.
StepErrors == {ErrApi, ErrJson, ErrAnalyzeFiles, ErrDiff, ErrPreview, ErrApply}

\* C10: when a step fails, no later step of the plan is started, the Task
\* ends in status failed and never completed, and the Task's error is the
\* message of the error the failing step raised.
C10_FailedStepFailsTask ==
    \A i \in Invocations : \A k \in DOMAIN calls[i].plan :
        calls[i].plan[k].status = "failed" =>
            /\ \A m \in DOMAIN calls[i].plan :
                  m > k => calls[i].plan[m].status = "none"
            /\ calls[i].pc \in {"rejected", "done"}
            /\ calls[i].thrown \in StepErrors
            /\ tasks[i].status # "completed"
            /\ calls[i].pc = "done" =>
                  /\ tasks[i].status = "failed"
                  /\ tasks[i].error = calls[i].thrown

\* The first of two steps failed in applyChange: the run is over, the
\* second step was never started, the Task is failed with that message.
C10_SecondStepNeverStarted ==
    \E i \in Invocations :
        /\ calls[i].pc = "done"
        /\ Len(calls[i].plan) = 2
        /\ calls[i].plan[1].status = "failed"
        /\ calls[i].plan[2].status = "none"
        /\ tasks[i].status = "failed"
        /\ tasks[i].error = ErrApply

\* C11: within one task the steps run one after another in plan order: at
\* most one step is running at any time, a step is started only when every
\* step before it in the plan has completed (so the steps complete in plan
\* order), and no step is started after a step that has not completed.
C11_StepsRunInPlanOrder ==
    \A i \in Invocations :
        LET p == calls[i].plan
        IN  /\ Cardinality({k \in DOMAIN p : p[k].status = "running"}) <= 1
            /\ \A k \in DOMAIN p :
                  p[k].status # "none" =>
                      \A m \in DOMAIN p : m < k => p[m].status = "completed"
            /\ \A k \in DOMAIN p :
                  p[k].status = "completed" =>
                      \A m \in DOMAIN p : m < k => p[m].status = "completed"

\* The second of two steps is running, and the first one has completed.
C11_SecondStepAfterFirst ==
    \E i \in Invocations :
        /\ Len(calls[i].plan) = 2
        /\ calls[i].plan[1].status = "completed"
        /\ calls[i].plan[2].status = "running"

\* C12: a rate-limited call is retried exactly once: the API is called at
\* most twice for one callClaude request.
C12_AtMostOneRetry ==
    \A i \in Invocations : calls[i].attempts <= 2

\* The API answers the call in flight of invocation i in this step, with
\* the given outcome.
Answers(i, outcome) ==
    /\ calls[i].outcome = "pending"
    /\ calls'[i].outcome = outcome

\* C13 (as the code has it): when the API answers a call with an error
\* that is not a rate limit, callClaude neither waits nor calls again and
\* the error is thrown on at once; when a step made the call, that step is
\* marked failed; the planning call is made before there is any step, and
\* its error fails the task without marking a step.
C13_OtherErrorThrownAtOnce ==
    [][\A i \in Invocations :
          Answers(i, "error") =>
              /\ calls'[i].pc = "rejected"
              /\ calls'[i].thrown = ErrApi
              /\ calls'[i].attempts = 0
              /\ calls[i].purpose = "editing" =>
                    calls'[i].plan[calls[i].idx].status = "failed"
              /\ calls[i].purpose = "planning" =>
                    /\ calls'[i].plan = <<>>
                    /\ tasks'[i].steps = <<>>]_vars

\* The editing call of the first step was answered with an error that is
\* not a rate limit: the step is failed, the error thrown on.
C13_EditCallFailed ==
    \E i \in Invocations :
        /\ calls[i].pc = "rejected"
        /\ calls[i].purpose = "editing"
        /\ calls[i].outcome = "error"
        /\ calls[i].thrown = ErrApi
        /\ calls[i].plan[1].status = "failed"

\* C13 (as stated): whenever the API answers a call with an error that is
\* not a rate limit, the error reaches executeStep and a step is marked
\* failed.
C13_OtherErrorFailsAStep ==
    [][\A i \in Invocations :
          Answers(i, "error") =>
              \E k \in DOMAIN calls'[i].plan :
                  calls'[i].plan[k].status = "failed"]_vars

\* C14: every attempt to call the API appends exactly one usage record to
\* the ledger when it is answered, whether with a text, with a rate limit
\* or with another error.
C14_EveryAttemptRecorded ==
    [][\A i \in Invocations :
          (calls[i].outcome = "pending" /\ calls'[i].outcome # "pending") =>
              Len(usage') = Len(usage) + 1]_vars

\* Invocation i starts a phase or a step in this step of the run: context
\* gathering, a step of the plan, or validateAndFinalize.
Starts(i) ==
    \/ calls[i].pc # "rankRelevantFiles" /\ calls'[i].pc = "rankRelevantFiles"
    \/ \E k \in DOMAIN calls[i].plan :
          /\ calls[i].plan[k].status = "none"
          /\ calls'[i].plan[k].status = "running"
    \/ calls[i].pc # "finalized" /\ calls'[i].pc = "finalized"

\* C15: once cancellation has been requested the executor starts no further
\* phase or step and the task ends failed; no change that was applied is
\* taken back.
C15_CancelledStartsNothing ==
    [][\A i \in Invocations :
          calls[i].cancelled =>
              /\ ~Starts(i)
              /\ calls'[i].pc = "done" => tasks'[i].status = "failed"
              /\ \A n \in DOMAIN applied :
                    n \in DOMAIN applied' /\ applied'[n] = applied[n]]_vars

\* The task of invocation i is between its start and its finish.
Active(i) == calls[i].pc \notin {"idle", "getApiKey", "setApiKey", "returned", "done"}

\* C16: at most one task is active at any time, however the invocations of
\* executeTask interleave, and getCurrentTask returns an executing task for
\* as long as any task is executing.
C16_OneActiveTask ==
    /\ \A i, j \in Invocations : Active(i) /\ Active(j) => i = j
    /\ (\E i \in Invocations : Active(i)) =>
            getCurrentTask \in {i \in Invocations : Active(i)}

\* The preview of invocation i's edit step comes back without an approval.
PreviewRefused(i) ==
    ShowChangesPreview(i, "Cancel") \/ ShowChangesPreview(i, "dismissed")

\* C17: applyChange is called for a proposed change only if that change is
\* approved, and a change becomes approved only by the answer 'Apply All' to
\* the preview or by the answer 'Yes' to its own question under 'Review
\* Each'; when the preview is cancelled or dismissed nothing is applied and
\* every change of the step keeps approved = false.
C17_AppliedOnlyIfApproved ==
    [][\A i \in Invocations :
          /\ calls'[i].pc = "applyChange" =>
                calls'[i].fileChanges[calls'[i].j].approved
          /\ \A n \in DOMAIN applied' :
                n \notin DOMAIN applied /\ applied'[n][1] = i =>
                    /\ calls[i].pc = "applyChange"
                    /\ calls[i].j = applied'[n][3]
                    /\ calls[i].fileChanges[applied'[n][3]].approved
          /\ \A n \in DOMAIN calls[i].fileChanges :
                /\ calls[i].pc \in {"preview", "review", "applyChange"}
                /\ ~calls[i].fileChanges[n].approved
                /\ \/ /\ n \in DOMAIN calls'[i].fileChanges
                      /\ calls'[i].fileChanges[n].approved
                   \/ /\ calls'[i].plan[calls[i].idx].status = "completed"
                      /\ calls'[i].plan[calls[i].idx].changes[n].approved
                => \/ ShowChangesPreview(i, "Apply All")
                   \/ calls[i].j = n /\ ReviewChange(i, TRUE)
          /\ PreviewRefused(i) =>
                /\ applied' = applied
                /\ calls'[i].plan[calls[i].idx].status = "completed"
                /\ \A n \in DOMAIN calls'[i].plan[calls[i].idx].changes :
                      ~calls'[i].plan[calls[i].idx].changes[n].approved]_vars

\* Under 'Review Each' one change was answered 'Yes' and another 'No', and
\* applyChange has been called for the approved one.
C17_ReviewedChangeBeingApplied ==
    \E i \in Invocations :
        /\ calls[i].pc = "applyChange"
        /\ \E n \in DOMAIN calls[i].fileChanges :
              ~calls[i].fileChanges[n].approved

\* C18: no step of a task is in status running unless validatePlan has
\* returned valid = true for the plan.
C18_OnlyValidatedPlansRun ==
    \A i \in Invocations :
        (\E k \in DOMAIN calls[i].plan : calls[i].plan[k].status = "running")
            => /\ planOp = "validatePlan"
               /\ planOut.kind = "ok"
               /\ planOut.valid

\* C19: when completeTask closes a task record, the record's totals come
\* from exactly the usage records with startTime <= timestamp < endTime: its
\* total, its tokens by purpose and its tokens by model.
C19_HalfOpenWindow ==
    [][\A n \in DOMAIN sessionTasks :
          sessionTasks[n].endTime = <<>> /\ sessionTasks'[n].endTime # <<>> =>
              LET rec == sessionTasks'[n]
                  counted == SelectSeq(usage,
                      LAMBDA r : /\ rec.startTime <= r.timestamp
                                 /\ r.timestamp < rec.endTime[1])
              IN  /\ rec.total = TokensOf(counted)
                  /\ rec.byPurpose = Tally(<<>>, counted, "purpose")
                  /\ rec.byModel = Tally(<<>>, counted, "model")]_vars

\* C20: when executeTask has finished a task that made service calls, the
\* ledger holds the task's record, closed, with every usage record of the
\* task inside its window [startTime, endTime) and counted in its total.
C20_OwnUsageInsideWindow ==
    \A i \in Alone :
        calls[i].pc = "done" /\ usage # <<>> =>
            \E n \in DOMAIN sessionTasks :
                LET rec == sessionTasks[n]
                IN  /\ rec.task = i
                    /\ rec.endTime # <<>>
                    /\ \A m \in DOMAIN usage :
                          /\ rec.startTime <= usage[m].timestamp
                          /\ usage[m].timestamp < rec.endTime[1]
                    /\ rec.total = TokensOf(usage)

\* C26: when executeTask is through with a task, task.steps shows what
\* happened: after a success every step of task.steps is completed; after a
\* failure at step k the steps before k are completed, step k is failed and
\* the steps after k are pending.
C26_TaskStepsShowProgress ==
    \A i \in Invocations :
        calls[i].pc = "done" =>
            /\ tasks[i].status = "completed" =>
                  \A k \in DOMAIN tasks[i].steps :
                      tasks[i].steps[k].status = "completed"
            /\ \A k \in DOMAIN calls[i].plan :
                  calls[i].plan[k].status = "failed" =>
                      /\ tasks[i].steps[k].status = "failed"
                      /\ \A m \in 1..(k - 1) :
                            tasks[i].steps[m].status = "completed"
                      /\ \A m \in (k + 1)..Len(tasks[i].steps) :
                            tasks[i].steps[m].status = "pending"

\* C29: after any sequence of addUsage, addTask and completeTask calls,
\* also with completeTask called again for a task, every task record's total
\* is the sum of its tokens by purpose and the sum of its tokens by model.
C29_TotalsAgree ==
    \A n \in DOMAIN sessionTasks :
        /\ sessionTasks[n].total = TallySum(sessionTasks[n].byPurpose)
        /\ sessionTasks[n].total = TallySum(sessionTasks[n].byModel)

\* C21: a persistence failure never propagates: no ledger operation that
\* saves has its promise rejected, whether the write fails or no session
\* path can be obtained.
C21_SaveNeverRejects == rejected = {}

\* C22: once every write in flight has finished, none of them having
\* failed, the document on disk is the snapshot of the latest session state.
C22_LatestSnapshotPersisted ==
    (saves = <<>> /\ disk # <<>> /\ rejected = {} /\ logged = {}) =>
        disk = stringify(currentSession(sessionTasks, usage, sessionEnd))

\* C23: loading a session whose saved document is the snapshot of the
\* current session returns a session equal to it in every field, Dates as
\* Dates.
C23_SaveLoadRoundTrip ==
    [][(loaded = <<>> /\ loaded' # <<>>
            /\ disk = stringify(currentSession(sessionTasks, usage, sessionEnd)))
          => loaded'[1] = currentSession(sessionTasks, usage, sessionEnd)]_vars

(***************************************************************************)
(* ContextManager (src/unnamed/part_003, lines 953-1480) and the part of   *)
(* CodebaseIndexer that builds what it reads (src/src/services/indexer.ts).*)
(*                                                                         *)
(* A text is the sequence of its lines.  A line is what the code looks at: *)
(* how it starts and which braces it holds (kind), its length in characters*)
(* (chars), and whether it contains the term of the query (hit).  Line     *)
(* numbers are 0-based as in the code; lines[n + 1] is line n.             *)
(***************************************************************************)

Line(kind, chars, hit) == [kind |-> kind, chars |-> chars, hit |-> hit]

\* trimmed.startsWith('import ')
IsImport(l) == l.kind = "import"
\* line.startsWith('export ')
IsExport(l) == l.kind \in {"export", "exportOpen"}
\* trimmed === ''
IsBlank(l) == l.kind = "blank"
\* The '{' and the '}' characters of the line.
Opens(l) == IF l.kind \in {"open", "exportOpen"} THEN 1 ELSE 0
Closes(l) == IF l.kind = "close" THEN 1 ELSE 0

\* The languages whose braces extractSymbolContent counts.
BraceLanguages == {"javascript", "typescript", "java", "csharp", "cpp"}
\* The languages extractImportSection, extractExportSection, extractImports
\* and extractExports know (python apart).
ScriptLanguages == {"javascript", "typescript"}

\* The lengths of the lines.
Chars(lines) == [k \in DOMAIN lines |-> lines[k].chars]

\* The length of strings of the given lengths joined by '\n'.
JoinLen(lens) == IF lens = <<>> THEN 0 ELSE SeqSum(lens) + Len(lens) - 1

\* array.slice(a, b)
Slice(s, a, b) == SubSeq(s, a + 1, Min(b, Len(s)))

\* text.length of the text with these lines.
TextLen(lines) == JoinLen(Chars(lines))

\* Math.ceil(text.length / 4)
CharsPerToken == 4
estimateTokens(chars) == (chars + CharsPerToken - 1) \div CharsPerToken

\* A variant of the sort that is not stable: descending keys, equal keys in
\* the reverse of their original order.
SortedTiesReversed(items, keys) ==
    LET n == Len(items)
        pos(k) == 1 + Cardinality({m \in 1..n :
                        keys[m] > keys[k] \/ (keys[m] = keys[k] /\ m > k)})
    IN  [q \in 1..n |-> items[CHOOSE k \in 1..n : pos(k) = q]]

\* The array sorted by array.sort((a, b) => keys[b] - keys[a]): descending
\* keys, equal keys in their original order.
SortedDescending(items, keys) ==
    LET n == Len(items)
        pos(k) == 1 + Cardinality({m \in 1..n :
                        keys[m] > keys[k] \/ (keys[m] = keys[k] /\ m < k)})
    IN  [q \in 1..n |-> items[CHOOSE k \in 1..n : pos(k) = q]]

\* ---- CodebaseIndexer.indexFile -----------------------------------------

\* A CodeSymbol: its type, its line, and whether its name contains the term
\* of the query.
Symbol(type, line, hit) == [type |-> type, line |-> line, hit |-> hit]

\* A CodeChunk: its line range and, per symbol name, whether the name
\* contains the term of the query.  Its content is the text of its lines.
Chunk(startLine, endLine, symbols) ==
    [startLine |-> startLine, endLine |-> endLine, symbols |-> symbols]

\* createChunks closes a chunk that has more lines than this.
ChunkLineLimit == 50

\* indexFile creates chunks for a text longer than this.
ChunkingMinChars == 2000

\* The loop of createChunks from line i on.  c holds chunks, chunkStart, the
\* length of currentChunk and chunkSymbols.
RECURSIVE ChunkLines(_, _, _, _)
ChunkLines(lines, symbols, i, c) ==
    IF i >= Len(lines)
    THEN IF c.count > 0
         THEN Append(c.chunks, Chunk(c.start, Len(lines) - 1, c.syms))
         ELSE c.chunks
    ELSE LET pushed == [c EXCEPT !.count = @ + 1]
             at == SelectSeq(symbols, LAMBDA sy : sy.line = i)
             afterSymbol ==
                IF at = <<>> THEN pushed
                ELSE IF at[1].type \in {"class", "function"}
                THEN [chunks |-> IF pushed.count > 1
                                 THEN Append(pushed.chunks,
                                        Chunk(pushed.start, i - 1, pushed.syms))
                                 ELSE pushed.chunks,
                      start |-> i, count |-> 1, syms |-> <<at[1].hit>>]
                ELSE [pushed EXCEPT !.syms = Append(@, at[1].hit)]
             afterSize ==
                IF afterSymbol.count > ChunkLineLimit
                THEN [chunks |-> Append(afterSymbol.chunks,
                                    Chunk(afterSymbol.start, i, afterSymbol.syms)),
                      start |-> i + 1, count |-> 0, syms |-> <<>>]
                ELSE afterSymbol
         IN  ChunkLines(lines, symbols, i + 1, afterSize)

createChunks(lines, symbols) ==
    ChunkLines(lines, symbols, 0,
               [chunks |-> <<>>, start |-> 0, count |-> 0, syms |-> <<>>])

\* extractImports(text, language).length and extractExports(...).length
ImportCount(lines, language) ==
    IF language \in ScriptLanguages
    THEN Len(SelectSeq(lines, IsImport))
    ELSE 0
ExportCount(lines, language) ==
    IF language \in ScriptLanguages
    THEN Len(SelectSeq(lines, IsExport))
    ELSE 0

\* The FileIndex indexFile stores for a text, next to the text itself.
\* chunked says whether the text was long enough for chunks when indexed.
IndexedFile(lines, language, symbols, chunked) ==
    [lines |-> lines, readable |-> TRUE, indexed |-> TRUE,
     language |-> language, symbols |-> symbols,
     imports |-> ImportCount(lines, language),
     exports |-> ExportCount(lines, language),
     chunked |-> chunked,
     chunks |-> IF chunked THEN createChunks(lines, symbols) ELSE <<>>]

\* ---- ContextManager: the pieces of a file -------------------------------

\* The loop of extractImportSection (javascript/typescript case) from
\* line k on.
RECURSIVE ImportLines(_, _, _, _)
ImportLines(lines, k, inImportBlock, imports) ==
    IF k > Len(lines) THEN imports
    ELSE IF IsImport(lines[k])
    THEN ImportLines(lines, k + 1, TRUE, Append(imports, lines[k].chars))
    ELSE IF inImportBlock /\ IsBlank(lines[k])
    THEN ImportLines(lines, k + 1, inImportBlock, imports)
    ELSE IF inImportBlock THEN imports
    ELSE ImportLines(lines, k + 1, inImportBlock, imports)

\* The lengths of the lines of the import section.
extractImportSection(lines, language) ==
    IF language \in ScriptLanguages
    THEN ImportLines(lines, 1, FALSE, <<>>)
    ELSE <<>>

\* The loop of extractExportSection, from the last line backwards.
RECURSIVE ExportLines(_, _, _)
ExportLines(lines, k, exports) ==
    IF k < 1 THEN exports
    ELSE IF IsExport(lines[k])
    THEN ExportLines(lines, k - 1, <<lines[k].chars>> \o exports)
    ELSE IF exports # <<>> /\ IsBlank(lines[k])
    THEN ExportLines(lines, k - 1, exports)
    ELSE IF exports # <<>> THEN exports
    ELSE ExportLines(lines, k - 1, exports)

\* The lengths of the lines of the export section.
extractExportSection(lines, language) ==
    IF language \in ScriptLanguages
    THEN ExportLines(lines, Len(lines), <<>>)
    ELSE <<>>

\* extractSymbolContent reads at most this many lines,
SymbolLineLimit == 50
\* cuts a symbol of more lines than this
SymbolLongLines == 20
\* down to this many lines,
SymbolKeptLines == 15
\* and appends '\n    // ... (implementation details omitted) ...\n}'.
DetailsMarkerChars == 50

\* The loop of extractSymbolContent from line i on.
RECURSIVE SymbolLines(_, _, _, _, _)
SymbolLines(lines, language, startLine, i, st) ==
    IF ~(i < Len(lines) /\ i < startLine + SymbolLineLimit) THEN st.symbolLines
    ELSE LET l == lines[i + 1]
             symbolLines == Append(st.symbolLines, l.chars)
             braceCount == st.braceCount + Opens(l) - Closes(l)
             inSymbol == st.inSymbol \/ Opens(l) > 0
         IN  IF language \in BraceLanguages
             THEN IF inSymbol /\ braceCount = 0
                  THEN symbolLines
                  ELSE SymbolLines(lines, language, startLine, i + 1,
                           [symbolLines |-> symbolLines,
                            braceCount |-> braceCount, inSymbol |-> inSymbol])
             ELSE SymbolLines(lines, language, startLine, i + 1,
                      [st EXCEPT !.symbolLines = symbolLines])

\* The length of what extractSymbolContent returns.
extractSymbolContent(lines, startLine, language) ==
    LET symbolLines == SymbolLines(lines, language, startLine, startLine,
            [symbolLines |-> <<>>, braceCount |-> 0, inSymbol |-> FALSE])
    IN  IF Len(symbolLines) > SymbolLongLines
        THEN JoinLen(SubSeq(symbolLines, 1, SymbolKeptLines)) + DetailsMarkerChars
        ELSE JoinLen(symbolLines)

\* The options of a call: ContextOptions as far as processFile reads them.
DefaultOptions ==
    [smartChunking |-> TRUE, includeImports |-> TRUE, includeExports |-> TRUE]
\* options === undefined: every options?.x is undefined.
UndefinedOptions ==
    [smartChunking |-> FALSE, includeImports |-> FALSE, includeExports |-> FALSE]

\* The loop of condenseFile over the main symbols, from the k-th on.  st
\* holds the lengths of the strings pushed onto condensed, and currentTokens.
RECURSIVE CondenseSymbols(_, _, _, _, _)
CondenseSymbols(file, symbols, k, maxTokens, st) ==
    IF k > Len(symbols) \/ st.currentTokens >= maxTokens THEN st
    ELSE LET symbolContent ==
                extractSymbolContent(file.lines, symbols[k].line, file.language)
             symbolTokens == estimateTokens(symbolContent)
         IN  IF st.currentTokens + symbolTokens <= maxTokens
             THEN CondenseSymbols(file, symbols, k + 1, maxTokens,
                      [condensed |-> st.condensed \o <<symbolContent, 0>>,
                       currentTokens |-> st.currentTokens + symbolTokens])
             ELSE CondenseSymbols(file, symbols, k + 1, maxTokens, st)

\* The length of what condenseFile returns.
condenseFile(file, maxTokens, options) ==
    LET importSection == extractImportSection(file.lines, file.language)
        header ==
            IF options.includeImports /\ file.imports > 0
            THEN [condensed |-> importSection \o <<0>>,
                  currentTokens |-> estimateTokens(JoinLen(importSection))]
            ELSE [condensed |-> <<>>, currentTokens |-> 0]
        main == SelectSeq(file.symbols,
                    LAMBDA sy : sy.type \in {"class", "function", "interface"})
        symbols == SortedDescending(main, [k \in DOMAIN main |-> 0 - main[k].line])
        body == CondenseSymbols(file, symbols, 1, maxTokens, header)
        condensed ==
            IF options.includeExports /\ file.exports > 0
                    /\ body.currentTokens < maxTokens
            THEN body.condensed \o extractExportSection(file.lines, file.language)
            ELSE body.condensed
    IN  JoinLen(condensed)

\* ---- ContextManager: chunks ---------------------------------------------

\* chunk.content.length: the text of the chunk's lines.
ChunkChars(lines, chunk) ==
    JoinLen(Chars(Slice(lines, chunk.startLine, chunk.endLine + 1)))

\* Without a query selectRelevantChunks takes one chunk per this many tokens.
ChunkSlotTokens == 500

\* The text-based score of a chunk: 1 for the query's term in its content,
\* 2 for each of its symbols whose name contains the term.
TextScore(lines, chunk) ==
    (IF \E n \in chunk.startLine..chunk.endLine : lines[n + 1].hit THEN 1 ELSE 0)
    + 2 * Len(SelectSeq(chunk.symbols, LAMBDA hit : hit))

\* The similarity of a chunk's embedding to the query's, as the
\* preprocessor answers it: falling or rising along the file.
Similarity(chunk, similar) ==
    IF similar = "head" THEN 0 - chunk.startLine ELSE chunk.startLine

\* The loop over the scored chunks: chunks are taken while they fit, and the
\* loop ends at the first that does not (or, text-based, that scores 0).
RECURSIVE TakeFitting(_, _, _, _, _, _, _)
TakeFitting(scored, scores, textBased, lines, maxTokens, k, st) ==
    IF k > Len(scored) THEN st.selected
    ELSE IF textBased /\ scores[k] = 0 THEN st.selected
    ELSE LET chunkTokens == estimateTokens(ChunkChars(lines, scored[k]))
         IN  IF st.currentTokens + chunkTokens <= maxTokens
             THEN TakeFitting(scored, scores, textBased, lines, maxTokens, k + 1,
                      [selected |-> Append(st.selected, scored[k]),
                       currentTokens |-> st.currentTokens + chunkTokens])
             ELSE st.selected

\* selectRelevantChunks: the chunks it returns, and the chunk array of the
\* index as it leaves it (the sort without a query is in place).
selectRelevantChunks(chunks, lines, maxTokens, args) ==
    IF ~args.query \/ chunks = <<>>
    THEN LET sorted == SortedDescending(chunks,
                          [k \in DOMAIN chunks |-> Len(chunks[k].symbols)])
         IN  [selected |-> Slice(sorted, 0,
                              (maxTokens + ChunkSlotTokens - 1) \div ChunkSlotTokens),
              chunks |-> sorted]
    ELSE IF args.embeddings
    THEN LET keys == [k \in DOMAIN chunks |-> Similarity(chunks[k], args.similar)]
             scored == SortedDescending(chunks, keys)
         IN  [selected |-> TakeFitting(scored, keys, FALSE, lines, maxTokens, 1,
                              [selected |-> <<>>, currentTokens |-> 0]),
              chunks |-> chunks]
    ELSE LET keys == [k \in DOMAIN chunks |-> TextScore(lines, chunks[k])]
             scored == SortedDescending(chunks, keys)
             scores == SortedDescending(keys, keys)
         IN  [selected |-> TakeFitting(scored, scores, TRUE, lines, maxTokens, 1,
                              [selected |-> <<>>, currentTokens |-> 0]),
              chunks |-> chunks]

\* assembleChunks inserts '\n// ... (code omitted) ...\n' at a gap.
OmittedMarkerChars == 27

\* The loop of assembleChunks from the k-th chunk on: the lengths of the
\* strings pushed onto sections.
RECURSIVE Sections(_, _, _, _)
Sections(chunks, lines, k, lastEndLine) ==
    IF k > Len(chunks) THEN <<>>
    ELSE LET chunk == chunks[k]
             chunkLines == Slice(lines, chunk.startLine, chunk.endLine + 1)
         IN  (IF lastEndLine # -1 /\ chunk.startLine > lastEndLine + 1
              THEN <<OmittedMarkerChars>> ELSE <<>>)
             \o <<JoinLen(Chars(chunkLines))>>
             \o Sections(chunks, lines, k + 1, chunk.endLine)

\* The length of what assembleChunks returns.
assembleChunks(chunks, lines) ==
    LET byLine == SortedDescending(chunks,
                      [k \in DOMAIN chunks |-> 0 - chunks[k].startLine])
    IN  JoinLen(Sections(byLine, lines, 1, -1))

\* ---- ContextManager.processFile ----------------------------------------

\* processFile takes a file whole when it has fewer tokens than this.
SmallFileTokens == 2000

\* A ContextFile: how its content was made (form), the content's length,
\* its tokens, and the chunks it was assembled from.
ContextFile(path, form, chars, included) ==
    [path |-> path, form |-> form, chars |-> chars,
     tokens |-> estimateTokens(chars), includedChunks |-> included]

\* What processFile returns (added = FALSE: null), and the chunk array of
\* the file's index as it leaves it.
processFile(ws, path, remainingTokens, args, options) ==
    LET file == ws[path]
        tokenCount == estimateTokens(TextLen(file.lines))
        picked == selectRelevantChunks(file.chunks, file.lines, remainingTokens, args)
        chunking == options.smartChunking /\ file.chunked
    IN  IF ~file.readable \/ ~file.indexed
        THEN [added |-> FALSE, chunks |-> file.chunks]
        ELSE IF tokenCount <= remainingTokens /\ tokenCount < SmallFileTokens
        THEN [added |-> TRUE, chunks |-> file.chunks,
              entry |-> ContextFile(path, "whole", TextLen(file.lines), <<>>)]
        ELSE IF chunking /\ picked.selected # <<>>
        THEN [added |-> TRUE, chunks |-> picked.chunks,
              entry |-> ContextFile(path, "chunks",
                            assembleChunks(picked.selected, file.lines),
                            [k \in DOMAIN picked.selected |->
                                picked.selected[k].startLine])]
        ELSE [added |-> TRUE,
              chunks |-> IF chunking THEN picked.chunks ELSE file.chunks,
              entry |-> ContextFile(path, "condensed",
                            condenseFile(file, remainingTokens, options), <<>>)]

\* ---- ContextManager.prepareContext -------------------------------------

\* defaultOptions.relevanceThreshold, in tenths.
RelevanceThresholdTenths == 5

\* The files prepareContext goes through: the candidates the preprocessor
\* scored at or above the threshold, best first, or the candidates as given.
RankedFiles(args) ==
    IF args.query /\ args.available
    THEN LET kept == SelectSeq(args.candidates,
                        LAMBDA f : args.scores[f] >= RelevanceThresholdTenths)
         IN  SortedDescending(kept, [k \in DOMAIN kept |-> args.scores[kept[k]]])
    ELSE args.candidates

\* The loop of prepareContext over rankedFiles from the k-th on.
RECURSIVE ProcessRanked(_, _, _, _, _)
ProcessRanked(ranked, k, args, ws, w) ==
    IF k > Len(ranked) \/ w.totalTokens >= args.budget
    THEN [window |-> w, workspace |-> ws]
    ELSE LET r == processFile(ws, ranked[k], args.budget - w.totalTokens,
                              args, DefaultOptions)
             ws2 == [ws EXCEPT ![ranked[k]].chunks = r.chunks]
         IN  IF r.added
             THEN ProcessRanked(ranked, k + 1, args, ws2,
                      [w EXCEPT !.files = Append(@, r.entry),
                                !.totalTokens = @ + r.entry.tokens])
             ELSE ProcessRanked(ranked, k + 1, args, ws2, w)

\* prepareContext(relevantFiles, maxTokens, query): the window it returns
\* and the workspace index as it leaves it.
prepareContext(ws, args) ==
    LET ranked == RankedFiles(args)
        start == [files |-> <<>>, totalTokens |-> 0, summary |-> "",
                  relevanceMap |-> IF args.query /\ args.available
                                   THEN {<<f, args.scores[f]>> : f \in Range(ranked)}
                                   ELSE {}]
        done == ProcessRanked(ranked, 1, args, ws, start)
    IN  [done EXCEPT !.window.summary =
            IF args.available THEN "summary" ELSE ""]

(***************************************************************************)
(* The files and the calls prepareContext is followed on.                  *)
(***************************************************************************)

\* A source file: importN import lines (and a blank line after them), then
\* funcs functions of bodyN body lines each, every line but the closing
\* braces chars long.  hits says which lines contain the term of the query:
\* none, the first line of the first and of the last function ("ends"), or
\* every line of every function ("all", and then the functions' names
\* contain it too).
SourceLines(importN, funcs, bodyN, exported, chars, hits) ==
    LET header == IF importN > 0 THEN importN + 1 ELSE 0
        span == bodyN + 2
    IN  [k \in 1..(header + funcs * span) |->
            IF k <= importN THEN Line("import", chars, FALSE)
            ELSE IF k <= header THEN Line("blank", 0, FALSE)
            ELSE LET q == (k - header - 1) % span
                     j == (k - header - 1) \div span + 1
                 IN  IF q = 0
                     THEN Line(IF exported THEN "exportOpen" ELSE "open", chars,
                               hits = "all" \/ (hits = "ends" /\ j \in {1, funcs}))
                     ELSE IF q = span - 1 THEN Line("close", 1, FALSE)
                     ELSE Line("code", chars, hits = "all")]

\* The symbols the symbol provider reports for it: the functions.
SourceSymbols(importN, funcs, bodyN, hits) ==
    [j \in 1..funcs |->
        Symbol("function",
               (IF importN > 0 THEN importN + 1 ELSE 0) + (j - 1) * (bodyN + 2),
               hits = "all")]

\* The file with its index: fresh, or taken before the text grew beyond
\* ChunkingMinChars (stale: no chunks).
Source(importN, shape, exported, chars, hits, language, stale) ==
    LET lines == SourceLines(importN, shape[1], shape[2], exported, chars, hits)
    IN  IndexedFile(lines, language,
                    SourceSymbols(importN, shape[1], shape[2], hits),
                    ~stale /\ TextLen(lines) > ChunkingMinChars)

\* <<functions, body lines of each>>: a short function, a function longer
\* than SymbolLongLines, three functions.
Shapes == {<<1, 2>>, <<1, 20>>, <<3, 5>>}

\* The shapes of the first file of the workspace.
Sources ==
    {Source(importN, shape, exported, chars, hits, "typescript", stale) :
        importN \in {0, 3}, shape \in Shapes, exported \in BOOLEAN,
        chars \in {20, 400}, hits \in {"none", "ends", "all"},
        stale \in BOOLEAN}
    \cup {Source(0, shape, FALSE, chars, hits, "go", FALSE) :
            shape \in Shapes, chars \in {20, 400}, hits \in {"none", "all"}}

\* The shapes of the second file: a short file, the same file unknown to
\* the index, the same file unreadable, and a long file.
Companions ==
    LET short == Source(0, <<1, 2>>, TRUE, 20, "all", "typescript", FALSE)
    IN  {short,
         [short EXCEPT !.indexed = FALSE],
         [short EXCEPT !.readable = FALSE],
         Source(3, <<3, 5>>, TRUE, 400, "ends", "typescript", FALSE)}

\* The candidate lists.
CandidateLists == {<<"f">>, <<"f", "g">>, <<"g", "f">>}

\* The budgets.
Budgets == {0, 100, 500, 3000}

\* The scores (in tenths) the preprocessor gives the two files.
Scorings ==
    {[f |-> 10, g |-> 5], [f |-> 5, g |-> 10], [f |-> 10, g |-> 0],
     [f |-> 3, g |-> 0], [f |-> 0, g |-> 0]}

Args(candidates, budget, query, available, embeddings, similar, scores) ==
    [candidates |-> candidates, budget |-> budget, query |-> query,
     available |-> available, embeddings |-> embeddings, similar |-> similar,
     scores |-> scores, maxAdditionalTokens |-> 0]

\* The calls: without a query; with a query and no preprocessor (text-based
\* or embedding-based chunk scores); with a query and a preprocessor that
\* ranks the files.
CallsOf(candidates, budget) ==
    {Args(candidates, budget, FALSE, available, FALSE, "head", [f |-> 10, g |-> 10]) :
        available \in BOOLEAN}
    \cup {Args(candidates, budget, TRUE, FALSE, FALSE, "head", [f |-> 10, g |-> 10])}
    \cup {Args(candidates, budget, TRUE, FALSE, TRUE, similar, [f |-> 10, g |-> 10]) :
            similar \in {"head", "tail"}}
    \cup {Args(candidates, budget, TRUE, TRUE, FALSE, "head", scores) :
            scores \in Scorings}

InitContext ==
    /\ anthropic = FALSE
    /\ ExecutorAtRest
    /\ StoreAtRest
    /\ folder = FALSE
    /\ steps = NoSteps
    /\ plan = NoPlan
    /\ constraints = NoConstraints
    /\ description = NoDescription
    /\ analysis = NoAnalysis
    /\ planOp = "none"
    /\ planOut = NoOut
    /\ \E f \in Sources, g \in Companions : workspace = [f |-> f, g |-> g]
    /\ \E candidates \in CandidateLists, budget \in Budgets :
          ctxArgs \in CallsOf(candidates, budget)
    /\ ctxOp = "none"
    /\ window = NoWindow
    /\ returned = NoWindow

\* prepareContext is called and returns.
PrepareContextCall ==
    /\ ctxOp = "none"
    /\ LET r == prepareContext(workspace, ctxArgs)
       IN  /\ window' = r.window
           /\ workspace' = r.workspace
    /\ ctxOp' = "prepareContext"
    /\ UNCHANGED <<ctxArgs, returned>>
    /\ UNCHANGED <<planVars, execVars, storeVars>>

\* prepareContext is called a second time with the same arguments, on the
\* index as the first call left it, and returns.
PrepareContextAgain ==
    /\ ctxOp = "prepareContext"
    /\ LET r == prepareContext(workspace, ctxArgs)
       IN  /\ returned' = r.window
           /\ workspace' = r.workspace
    /\ ctxOp' = "prepareContextAgain"
    /\ UNCHANGED <<ctxArgs, window>>
    /\ UNCHANGED <<planVars, execVars, storeVars>>

\* The paths of the index's file map, in its order of insertion.
IndexOrder == <<"f", "g">>

\* The budgets for the files expandContext adds.
AdditionalBudgets == {100}

\* The sets of indexed files that have a symbol named, or referencing, the
\* symbol expandContext is given.
ReferencingSets == {{"g"}, {"f", "g"}}

\* The loop of expandContext over references from the k-th on: the files
\* array, which the copy shares with currentContext, and addedTokens.
RECURSIVE AddReferences(_, _, _, _, _)
AddReferences(ws, references, k, maxAdditionalTokens, st) ==
    IF k > Len(references) \/ st.addedTokens >= maxAdditionalTokens THEN st
    ELSE LET r == processFile(ws, references[k],
                              maxAdditionalTokens - st.addedTokens,
                              [query |-> TRUE], UndefinedOptions)
         IN  IF r.added
             THEN AddReferences(ws, references, k + 1, maxAdditionalTokens,
                      [files |-> Append(st.files, r.entry),
                       addedTokens |-> st.addedTokens + r.entry.tokens])
             ELSE AddReferences(ws, references, k + 1, maxAdditionalTokens, st)

\* expandContext(currentContext, symbol, maxAdditionalTokens), where the
\* files of `referencing` have a symbol that is or references `symbol`: the
\* window it returns, and currentContext as it leaves it.
expandContext(ws, currentContext, referencing, maxAdditionalTokens) ==
    LET inContext == {currentContext.files[k].path : k \in DOMAIN currentContext.files}
        references == SelectSeq(IndexOrder,
                          LAMBDA path : /\ ws[path].indexed
                                        /\ path \notin inContext
                                        /\ path \in referencing)
        done == AddReferences(ws, references, 1, maxAdditionalTokens,
                    [files |-> currentContext.files, addedTokens |-> 0])
    IN  [expandedContext |->
            [currentContext EXCEPT !.files = done.files,
                                   !.totalTokens = @ + done.addedTokens],
         currentContext |-> [currentContext EXCEPT !.files = done.files]]

\* expandContext is called on the window prepareContext returned, and
\* returns.
ExpandContext(referencing, maxAdditionalTokens) ==
    /\ ctxOp = "prepareContext"
    /\ LET r == expandContext(workspace, window, referencing, maxAdditionalTokens)
       IN  /\ returned' = r.expandedContext
           /\ window' = r.currentContext
    /\ ctxArgs' = [ctxArgs EXCEPT !.maxAdditionalTokens = maxAdditionalTokens]
    /\ ctxOp' = "expandContext"
    /\ UNCHANGED workspace
    /\ UNCHANGED <<planVars, execVars, storeVars>>

NextContext == PrepareContextCall

SpecContext == InitContext /\ [][NextContext]_vars

\* A call of prepareContext on both files in the order of the index, to be
\* followed by another call of the context manager.
InitFollowUp == InitContext /\ ctxArgs.candidates = IndexOrder

\* prepareContext, then prepareContext again with the same arguments.
NextAgain ==
    \/ PrepareContextCall
    \/ PrepareContextAgain

SpecAgain == InitFollowUp /\ [][NextAgain]_vars

\* prepareContext, then expandContext on the window it returned.
NextExpand ==
    \/ PrepareContextCall
    \/ \E referencing \in ReferencingSets,
          maxAdditionalTokens \in AdditionalBudgets :
            ExpandContext(referencing, maxAdditionalTokens)

SpecExpand == InitFollowUp /\ [][NextExpand]_vars

(***************************************************************************)
(* Claims about prepareContext.                                            *)
(***************************************************************************)

\* C1: the ContextWindow returned by prepareContext has totalTokens at most
\* the requested budget, for every candidate list, budget and query, also
\* for files taken through smart chunking or through the condensed fallback.
C1_WindowWithinBudget ==
    ctxOp = "prepareContext" => window.totalTokens <= ctxArgs.budget

\* C24: when the preprocessor has scored the candidates, a candidate that
\* scores zero contributes no file entry, and whenever a candidate scores
\* above zero and the budget is positive the window has a file (so that the
\* window is empty iff no candidate scores above zero).
C24_EmptyIffNoRelevantCandidate ==
    (ctxOp = "prepareContext" /\ ctxArgs.query /\ ctxArgs.available) =>
        /\ \A k \in DOMAIN window.files :
              ctxArgs.scores[window.files[k].path] > 0
        /\ ((\E f \in Range(ctxArgs.candidates) : ctxArgs.scores[f] > 0)
                /\ ctxArgs.budget > 0)
              => window.files # <<>>

\* C25: a second call of prepareContext with the same arguments, on the
\* index as the first call left it, returns the window the first returned.
C25_PrepareContextIdempotent ==
    ctxOp = "prepareContextAgain" => returned = window

\* Without a query the first call took some, not all, of a file's chunks,
\* after sorting the chunk array of the index in place; the second call has
\* returned.
C25_ChunksTakenTwice ==
    /\ ctxOp = "prepareContextAgain"
    /\ ~ctxArgs.query
    /\ \E k \in DOMAIN window.files :
          /\ window.files[k].form = "chunks"
          /\ Len(window.files[k].includedChunks)
                < Len(workspace[window.files[k].path].chunks)

\* The sum of the tokens of the files of a window.
RECURSIVE FileTokens(_)
FileTokens(files) ==
    IF files = <<>> THEN 0 ELSE Head(files).tokens + FileTokens(Tail(files))

\* C30: after expandContext the window passed in and the window returned
\* both have totalTokens = the sum of their files' tokens, the window passed
\* in has the files it had, and the returned window's totalTokens exceeds
\* the input's by at most maxAdditionalTokens.
C30_ExpandLeavesInputIntact ==
    [][(ctxOp = "prepareContext" /\ ctxOp' = "expandContext") =>
          /\ window' = window
          /\ window'.totalTokens = FileTokens(window'.files)
          /\ returned'.totalTokens = FileTokens(returned'.files)
          /\ returned'.totalTokens
                <= window.totalTokens + ctxArgs'.maxAdditionalTokens]_vars

====
